---- MODULE Spec2Model ----
(***************************************************************************)
(* Lab Lifecycle Manager of RosettaCloud: the two EKSLabs back-ends         *)
(*   "sts": src/app/backends/lab_backends.py  (StatefulSet replica slots)   *)
(*   "pod": src/app/backends/labs_backends.py (one pod per lab)             *)
(* modelled as asyncio tasks over one orchestrator.                         *)
(*                                                                         *)
(* Granularity.  A task's pc names the orchestrator call it has pending.    *)
(* One step is that call's effect on the orchestrator together with the     *)
(* coroutine code that runs after it, up to the next pending call.  The     *)
(* sleeps of retry_async and of the poll loops are suspension points with   *)
(* no effect and are folded into the step that precedes them.               *)
(*                                                                         *)
(* Orchestrator.  The StatefulSet, the headless Service and the Ingress     *)
(* exist once init() has run.  The StatefulSet controller is taken to have  *)
(* created the pods 0..replicas-1 as soon as spec.replicas is patched; the  *)
(* kubelet makes them ready at some later time or not before the deadline:  *)
(* a poll that finds them ready is the step at which they have become so.   *)
(* A patch of the Ingress is stored as it is sent, whatever has been        *)
(* written since the sender's read (last writer wins).                      *)
(*                                                                         *)
(* Time.  The clock counts ticks of 1/Res second, so that the truncation    *)
(* int(now - ts) of _time_left is not the identity.                         *)
(***************************************************************************)
EXTENDS Integers, Sequences, FiniteSets, TLC

\* ------------------------------------------------------------------ bounds
NumTasks == 2
NumLabs == 2
MaxReplicas == 3
MaxOutages == 1
MaxTime == 4
Res == 2
MaxCalls == 4
MaxText == 1
MaxMsgs == 2
MaxRules == 3
NumCallers == 6
NumRequests == 3

\* ------------------------------------------------------- program constants
MAX_RETRIES == 3
POD_TTL_SECS == 1
CONCURRENCY == 5

Tasks == 1..NumTasks
Jan == 0
Procs == Tasks \cup {Jan}
Labs == 1..NumLabs

VARIABLES
    backend,     \* "sts" or "pod": which back-end module is loaded
    active,      \* self._active : lab_id -> replica index / pod name
    created,     \* self._created: insertion-ordered <<lab_id, epoch>> pairs
    now,         \* the wall clock, in ticks
    task,        \* one record per running coroutine (API calls and the janitor)
    replicas,    \* orchestrator: StatefulSet spec.replicas
    ready,       \* orchestrator: StatefulSet status.ready_replicas
    pods,        \* orchestrator: phase of each lab pod (pod back-end)
    svcs,        \* orchestrator: lab ids whose <lab>-svc Service exists
    ingExists,   \* orchestrator: the shared Ingress object exists
    rules,       \* orchestrator: lab ids having a host rule in the Ingress
    down,        \* orchestrator: control plane answers 5xx (transient outage)
    outages,     \* number of outages so far
    calls,       \* number of API calls so far
    scaffold,    \* orchestrator: which of the shared StatefulSet ("sts") and
                 \* headless Service ("headless") exist
    px,          \* the terminal session of lab_service.proxy and its two peers
    ingress,     \* the rule list of the Ingress and one _patch_ingress on it
    gate,        \* the semaphore of _k8s() and the coroutines that use it
    retry,       \* one call of a function wrapped by retry_async
    api          \* the API layer: the active_labs cache entry of one user, that
                 \* user's requests in progress and the labs they have launched

orch == <<replicas, ready, pods, svcs, ingExists, rules>>
side == <<scaffold, px, ingress, gate, retry, api>>
env == <<down, outages, calls, side>>
vars == <<backend, active, created, now, task, replicas, ready,
          pods, svcs, ingExists, rules, down, outages, calls, scaffold, px,
          ingress, gate, retry, api>>

\* ----------------------------------------------------------------- naming
pod_name(l) == <<"lab", l>>
lab_host(l) == <<l, "WILDCARD_DOMAIN">>
svc_name(l) == <<l, "svc">>

\* ------------------------------------------- terminal proxy: the frame codec
\* A text is a sequence of Unicode scalar values, a bytes object a sequence
\* of integers 0..255.
Chars == {65, 233, 8364, 128512}
Texts == UNION {[1..n -> Chars] : n \in 0..MaxText}

RECURSIVE Flat(_)
Flat(ss) == IF ss = <<>> THEN <<>> ELSE Head(ss) \o Flat(Tail(ss))

\* str.encode(): UTF-8
utf8(c) ==
    IF c < 128 THEN <<c>>
    ELSE IF c < 2048 THEN <<192 + (c \div 64), 128 + (c % 64)>>
    ELSE IF c < 65536
    THEN <<224 + (c \div 4096), 128 + ((c \div 64) % 64), 128 + (c % 64)>>
    ELSE <<240 + (c \div 262144), 128 + ((c \div 4096) % 64),
           128 + ((c \div 64) % 64), 128 + (c % 64)>>

encode(text) == Flat([i \in 1..Len(text) |-> utf8(text[i])])

\* bytes.decode(errors="replace"): every maximal ill-formed run of bytes
\* becomes one U+FFFD
Second(b) ==
    IF b = 224 THEN 160..191
    ELSE IF b = 237 THEN 128..159
    ELSE IF b = 240 THEN 144..191
    ELSE IF b = 244 THEN 128..143
    ELSE 128..191

RECURSIVE decode(_)
decode(bs) ==
    IF bs = <<>> THEN <<>>
    ELSE LET b == bs[1]
             n == IF b < 128 THEN 1
                  ELSE IF b \in 194..223 THEN 2
                  ELSE IF b \in 224..239 THEN 3
                  ELSE IF b \in 240..244 THEN 4
                  ELSE 0
             fits(i) == i <= Len(bs) /\ bs[i] \in (IF i = 2 THEN Second(b) ELSE 128..191)
             m == IF n = 0 THEN 1
                  ELSE CHOOSE k \in 1..n : /\ \A i \in 2..k : fits(i)
                                           /\ k < n => ~fits(k + 1)
             c == IF n = 1 THEN b
                  ELSE IF n = 2 THEN (b - 192) * 64 + (bs[2] - 128)
                  ELSE IF n = 3
                  THEN (b - 224) * 4096 + (bs[2] - 128) * 64 + (bs[3] - 128)
                  ELSE (b - 240) * 262144 + (bs[2] - 128) * 4096
                       + (bs[3] - 128) * 64 + (bs[4] - 128)
         IN (IF m = n THEN <<c>> ELSE <<65533>>) \o decode(SubSeq(bs, m + 1, Len(bs)))

\* the base64 alphabet, as ASCII codes
B64(s) ==
    IF s < 26 THEN 65 + s
    ELSE IF s < 52 THEN 97 + (s - 26)
    ELSE IF s < 62 THEN 48 + (s - 52)
    ELSE IF s = 62 THEN 43 ELSE 47

UnB64(a) == CHOOSE s \in 0..63 : B64(s) = a

RECURSIVE b64encode(_)
b64encode(bs) ==
    IF bs = <<>> THEN <<>>
    ELSE LET k == IF Len(bs) < 3 THEN Len(bs) ELSE 3
             b(i) == IF i <= k THEN bs[i] ELSE 0
             n == b(1) * 65536 + b(2) * 256 + b(3)
         IN <<B64(n \div 262144), B64((n \div 4096) % 64),
              IF k >= 2 THEN B64((n \div 64) % 64) ELSE 61,
              IF k = 3 THEN B64(n % 64) ELSE 61>>
            \o b64encode(SubSeq(bs, k + 1, Len(bs)))

RECURSIVE b64decode(_)
b64decode(cs) ==
    IF Len(cs) < 4 THEN <<>>
    ELSE LET v(i) == IF cs[i] = 61 THEN 0 ELSE UnB64(cs[i])
             n == v(1) * 262144 + v(2) * 4096 + v(3) * 64 + v(4)
             k == IF cs[3] = 61 THEN 1 ELSE IF cs[4] = 61 THEN 2 ELSE 3
         IN SubSeq(<<n \div 65536, (n \div 256) % 256, n % 256>>, 1, k)
            \o b64decode(SubSeq(cs, 5, Len(cs)))

\* struct.pack(">I", n)
pack_I_big(n) ==
    <<(n \div 16777216) % 256, (n \div 65536) % 256, (n \div 256) % 256, n % 256>>

\* struct.pack("<I", n)
pack_I(n) ==
    <<n % 256, (n \div 256) % 256, (n \div 65536) % 256, (n \div 16777216) % 256>>

\* str(uuid.uuid4()): 36 characters, of which two values are kept
uuid4 ==
    {[i \in 1..36 |-> IF i \in {9, 14, 19, 24} THEN 45
                      ELSE IF i = 15 THEN 52
                      ELSE IF i = 20 THEN 97
                      ELSE d] : d \in {48, 102}}

\* json.dumps(msg).encode() of the four-key message of _wrap:
\* {"MessageSchemaVersion": "1.0", "RequestId": "<id>", "Channel": "stdin",
\*  "Payload": "<payload>"}
dumps(id, payload) ==
    <<123, 34, 77, 101, 115, 115, 97, 103, 101, 83, 99, 104, 101, 109, 97,
      86, 101, 114, 115, 105, 111, 110, 34, 58, 32, 34, 49, 46, 48, 34, 44,
      32, 34, 82, 101, 113, 117, 101, 115, 116, 73, 100, 34, 58, 32, 34>>
    \o id
    \o <<34, 44, 32, 34, 67, 104, 97, 110, 110, 101, 108, 34, 58, 32, 34,
         115, 116, 100, 105, 110, 34, 44, 32, 34, 80, 97, 121, 108, 111, 97,
         100, 34, 58, 32, 34>>
    \o payload
    \o <<34, 125>>

\* json.loads of an object of string members without escapes: the set of
\* its <<key, value>> pairs
StrEnd(s, i) == CHOOSE j \in i..Len(s) : s[j] = 34 /\ \A h \in i..(j - 1) : s[h] # 34

RECURSIVE Members(_, _)
Members(s, i) ==
    LET ke == StrEnd(s, i + 1)
        vs == ke + 4
        ve == StrEnd(s, vs)
    IN {<<SubSeq(s, i + 1, ke - 1), SubSeq(s, vs, ve - 1)>>}
       \cup IF s[ve + 1] = 44 THEN Members(s, ve + 3) ELSE {}

loads(s) == Members(s, 2)

\* doc["Payload"]
Payload(doc) == (CHOOSE m \in doc : m[1] = <<80, 97, 121, 108, 111, 97, 100>>)[2]

_wrap(text, id) ==
    LET raw == dumps(id, b64encode(encode(text)))
    IN pack_I(Len(raw)) \o raw \o <<0>>

_unwrap(data) ==
    LET raw == SubSeq(data, 5, Len(data) - 1)
    IN decode(b64decode(Payload(loads(raw))))

\* ----------------------------------------------- terminal proxy: the session
\* proxy(ws, lab_id) opens the remote-exec connection `backend` and runs
\* browser_to_lab and lab_to_browser under asyncio.gather.  gather hands the
\* first exception of either direction to proxy at once and otherwise
\* returns when both have returned; it cancels neither.  Leaving the
\* `async with` block, either way, closes the connection.
\*
\* The two library streams end as their libraries make them end:
\*   ws.iter_text()          on a client disconnect stops the iteration, or
\*                           lets WebSocketDisconnect reach the loop body;
\*   `async for ... backend` stops when the connection was closed normally
\*                           (by the peer or locally), raises otherwise.
NoSession ==
    [phase |-> "idle",  \* of proxy: idle, open, returned, raised
     client |-> "open", \* the browser's WebSocket: open, gone
     remote |-> "open", \* the remote end of the exec stream: open, ended, aborted
     conn |-> "none",   \* the connection object: none, open, closed (locally)
     b2l |-> "none",    \* browser_to_lab: none, run, done, raised
     l2b |-> "none",    \* lab_to_browser
     inq |-> <<>>,      \* texts the client has sent and ws has not yet yielded
     got |-> <<>>,      \* texts ws.iter_text() has yielded
     sent |-> <<>>,     \* frames given to backend.send
     outq |-> <<>>,     \* frames received from the remote end, not yet yielded
     shown |-> <<>>,    \* texts given to ws.send_text
     cause |-> "none"]  \* what ended first: none, client, remote

lifecycle == <<backend, active, created, now, task, orch, down, outages, calls, scaffold>>

\* await asyncio.gather(...) and the exit of the `async with` block
Gathered(x) ==
    IF x.phase # "open" THEN x
    ELSE IF "raised" \in {x.b2l, x.l2b}
    THEN [x EXCEPT !.phase = "raised", !.conn = "closed"]
    ELSE IF x.b2l = "done" /\ x.l2b = "done"
    THEN [x EXCEPT !.phase = "returned", !.conn = "closed"]
    ELSE x

\* cfg = await _exec_stream(lab_id); websockets.connect(uri, **cfg)
ProxyCall ==
    /\ px.phase = "idle"
    /\ px.client = "open" /\ px.remote = "open"
    /\ px' = [px EXCEPT !.phase = "open", !.conn = "open",
                        !.b2l = "run", !.l2b = "run"]
    /\ UNCHANGED <<lifecycle, ingress, gate, retry, api>>

Streaming == px.conn = "open" /\ px.remote = "open"

\* one turn of browser_to_lab: the next text of the client is wrapped and
\* sent, ...
BrowserToLab ==
    /\ px.b2l = "run"
    /\ px.inq # <<>>
    /\ \E id \in uuid4 :
          LET x == [px EXCEPT !.inq = Tail(@), !.got = Append(@, Head(px.inq))]
          IN px' = Gathered(IF Streaming
                            THEN [x EXCEPT !.sent = Append(@, _wrap(Head(px.inq), id))]
                            ELSE [x EXCEPT !.b2l = "raised"])
    /\ UNCHANGED <<lifecycle, ingress, gate, retry, api>>

\* ... or the client is gone: the iteration stops (closes = FALSE), or
\* WebSocketDisconnect is caught and the connection closed (closes = TRUE)
BrowserToLabEnds ==
    /\ px.b2l = "run"
    /\ px.inq = <<>> /\ px.client = "gone"
    /\ \E closes \in BOOLEAN :
          px' = Gathered([px EXCEPT !.b2l = "done",
                                    !.conn = IF closes THEN "closed" ELSE @])
    /\ UNCHANGED <<lifecycle, ingress, gate, retry, api>>

\* one turn of lab_to_browser: the next frame is unwrapped and sent to the
\* client, ...
LabToBrowser ==
    /\ px.l2b = "run"
    /\ px.outq # <<>>
    /\ LET x == [px EXCEPT !.outq = Tail(@)]
       IN px' = Gathered(IF px.client = "open"
                         THEN [x EXCEPT !.shown = Append(@, _unwrap(Head(px.outq)))]
                         ELSE [x EXCEPT !.l2b = "raised"])
    /\ UNCHANGED <<lifecycle, ingress, gate, retry, api>>

\* ... or the connection is closed
LabToBrowserEnds ==
    /\ px.l2b = "run"
    /\ px.outq = <<>>
    /\ px.conn = "closed" \/ px.remote # "open"
    /\ px' = Gathered([px EXCEPT !.l2b = IF px.conn = "closed" \/ px.remote = "ended"
                                         THEN "done" ELSE "raised"])
    /\ UNCHANGED <<lifecycle, ingress, gate, retry, api>>

\* the peers
ClientSends ==
    /\ px.client = "open"
    /\ Len(px.inq) + Len(px.got) < MaxMsgs
    /\ \E text \in Texts : px' = [px EXCEPT !.inq = Append(@, text)]
    /\ UNCHANGED <<lifecycle, ingress, gate, retry, api>>

ClientLeaves ==
    /\ px.client = "open"
    /\ px' = [px EXCEPT !.client = "gone",
                        !.cause = IF @ = "none" /\ px.phase = "open" THEN "client" ELSE @]
    /\ UNCHANGED <<lifecycle, ingress, gate, retry, api>>

RemoteSends ==
    /\ Streaming
    /\ Len(px.outq) + Len(px.shown) < 1
    /\ \E text \in Texts, id \in uuid4 :
          px' = [px EXCEPT !.outq = Append(@, _wrap(text, id))]
    /\ UNCHANGED <<lifecycle, ingress, gate, retry, api>>

RemoteEnds ==
    /\ Streaming
    /\ \E how \in {"ended", "aborted"} :
          px' = [px EXCEPT !.remote = how,
                           !.cause = IF @ = "none" THEN "remote" ELSE @]
    /\ UNCHANGED <<lifecycle, ingress, gate, retry, api>>

\* ------------------------------------------------- _patch_ingress, in detail
\* Elsewhere the Ingress is kept as `rules`, the set of the labs that have a
\* host rule.  Here its spec.rules is the list of V1IngressRule objects that
\* the API server stores, which may hold several rules for one host and
\* rules nobody of this program wrote.
Rule(l, service, port) ==
    [host |-> lab_host(l), path |-> "/", path_type |-> "Prefix",
     service |-> service, port |-> port]

\* the rule _patch_ingress builds for lab_id
LabRule(l) == Rule(l, svc_name(l), 80)

\* rules that may be in the Ingress beforehand
SomeRules == UNION {{LabRule(l), Rule(l, svc_name(l), 8080)} : l \in Labs}
RuleLists == UNION {[1..n -> SomeRules] : n \in 0..MaxRules}

\* read_namespaced_ingress: an empty list comes back as None
spec_rules(stored) == [none |-> stored = <<>>, items |-> stored]

\* (variant) the rule is appended to whatever is there
new_rules_appended(read, l, add) ==
    IF add THEN Append(read.items, LabRule(l)) ELSE read.items

\* the list _patch_ingress sends back
new_rules(read, l, add) ==
    LET cur == IF read.none THEN <<>> ELSE read.items
        kept == SelectSeq(cur, LAMBDA r : r.host # lab_host(l))
    IN IF add THEN Append(kept, LabRule(l)) ELSE kept

NoPatch ==
    [rules |-> <<>>,    \* spec.rules as stored
     pc |-> "idle",     \* of _patch_ingress: idle, read, write, done
     lab |-> 0, add |-> FALSE,
     read |-> spec_rules(<<>>),  \* ing.spec.rules as read
     before |-> <<>>,   \* spec.rules as stored when the call began
     repeat |-> FALSE]  \* the call repeats the call before it

\* somebody has given the Ingress any rule list
IngressEdited ==
    /\ ingress.pc \in {"idle", "done"}
    /\ \E rs \in RuleLists : ingress' = [NoPatch EXCEPT !.rules = rs]
    /\ UNCHANGED <<lifecycle, px, gate, retry, api>>

\* _patch_ingress(lab_id, add) is called, nothing else running
PatchCall ==
    /\ ingress.pc \in {"idle", "done"}
    /\ \E l \in Labs, add \in BOOLEAN :
          ingress' = [ingress EXCEPT
                         !.pc = "read", !.lab = l, !.add = add,
                         !.before = ingress.rules,
                         !.repeat = (ingress.pc = "done" /\ ingress.lab = l
                                     /\ ingress.add = add)]
    /\ UNCHANGED <<lifecycle, px, gate, retry, api>>

PatchRead ==
    /\ ingress.pc = "read"
    /\ ingress' = [ingress EXCEPT !.pc = "write", !.read = spec_rules(ingress.rules)]
    /\ UNCHANGED <<lifecycle, px, gate, retry, api>>

\* patch_namespaced_ingress with the whole object: the list is replaced
PatchWrite ==
    /\ ingress.pc = "write"
    /\ ingress' = [ingress EXCEPT
                      !.pc = "done",
                      !.rules = new_rules(ingress.read, ingress.lab, ingress.add)]
    /\ UNCHANGED <<lifecycle, px, gate, retry, api>>

NextPatch == IngressEdited \/ PatchCall \/ PatchRead \/ PatchWrite

\* ---------------------------------------------------------------- the gate
\* `async with self._k8s()`: a coroutine is out of the gate, waits for a
\* permit of self._sem, holds one (in), or holds one with a request to the
\* orchestrator in flight (op).
NoCaller == [sem |-> CONCURRENCY, at |-> [c \in 1..NumCallers |-> "out"]]

Callers == 1..NumCallers

\* async with self._sem: the coroutine asks for a permit
GateArrive(c) ==
    /\ gate.at[c] = "out"
    /\ gate' = [gate EXCEPT !.at[c] = "wait"]
    /\ UNCHANGED <<lifecycle, px, ingress, retry, api>>

\* (variant) a permit is handed out whether or not one is left
GateEnterAnyway(c) ==
    /\ gate.at[c] = "wait"
    /\ gate' = [gate EXCEPT !.at[c] = "in", !.sem = IF @ > 0 THEN @ - 1 ELSE 0]
    /\ UNCHANGED <<lifecycle, px, ingress, retry, api>>

\* Semaphore.acquire, then `yield await self._get_clients()`
GateEnter(c) ==
    /\ gate.at[c] = "wait"
    /\ gate.sem > 0
    /\ gate' = [gate EXCEPT !.at[c] = "in", !.sem = @ - 1]
    /\ UNCHANGED <<lifecycle, px, ingress, retry, api>>

\* await asyncio.to_thread(<request>) inside the block
GateRequest(c) ==
    /\ gate.at[c] = "in"
    /\ gate' = [gate EXCEPT !.at[c] = "op"]
    /\ UNCHANGED <<lifecycle, px, ingress, retry, api>>

\* the request is answered and the block goes on: with the result, or in an
\* except clause of the block (a tolerated 404 or 409)
GateAnswer(c) ==
    /\ gate.at[c] = "op"
    /\ gate' = [gate EXCEPT !.at[c] = "in"]
    /\ UNCHANGED <<lifecycle, px, ingress, retry, api>>

\* the block is left, at its end, by return, or by an exception (of the
\* request, of the block, or CancelledError, which also ends a wait):
\* __aexit__ of the semaphore releases the permit
GateLeave(c) ==
    /\ gate.at[c] \in {"wait", "in", "op"}
    /\ gate' = [gate EXCEPT !.at[c] = "out",
                            !.sem = IF gate.at[c] = "wait" THEN @ ELSE @ + 1]
    /\ UNCHANGED <<lifecycle, px, ingress, retry, api>>

NextGate ==
    \E c \in Callers :
        \/ GateArrive(c) \/ GateEnter(c)
        \/ GateRequest(c) \/ GateAnswer(c)
        \/ GateLeave(c)

\* -------------------------------------------------------------- retry_async
\* the keyword defaults of retry_async
DELAY == 1
BACKOFF == 2

Outcomes == {"ok", "ApiException", "RuntimeError", "OSError", "CancelledError"}

\* the `exceptions` tuples the program passes
ExceptionTuples == {{"Exception"}, {"ApiException"}, {"ApiException", "RuntimeError"}}

\* `except exceptions`: ApiException, RuntimeError and OSError (a connection
\* that fails) derive from Exception, CancelledError from BaseException
Caught(exceptions, e) ==
    /\ e # "ok"
    /\ e \in exceptions \/ ("Exception" \in exceptions /\ e # "CancelledError")

NoRetry ==
    [pc |-> "idle",     \* of wrap: idle, run, returned, raised
     exceptions |-> {},
     n |-> 0, t |-> 0,
     seen |-> <<>>,     \* how each await of fn has ended, in order
     slept |-> <<>>,    \* the arguments of asyncio.sleep, in order
     out |-> "none"]    \* what wrap has returned or raised

\* a wrapped function is called
RetryCall ==
    /\ retry.pc \in {"idle", "returned", "raised"}
    /\ \E ex \in ExceptionTuples :
          retry' = [NoRetry EXCEPT !.pc = "run", !.exceptions = ex, !.t = DELAY]
    /\ UNCHANGED <<lifecycle, px, ingress, gate, api>>

\* (variant) `if n > max_retries`
TriedOnceMore(r, e, max) ==
    LET r1 == [r EXCEPT !.seen = Append(@, e)] IN
    IF e = "ok" THEN [r1 EXCEPT !.pc = "returned", !.out = e]
    ELSE IF ~Caught(r.exceptions, e) THEN [r1 EXCEPT !.pc = "raised", !.out = e]
    ELSE IF r.n + 1 > max THEN [r1 EXCEPT !.pc = "raised", !.out = e, !.n = @ + 1]
    ELSE [r1 EXCEPT !.n = @ + 1, !.slept = Append(@, r.t), !.t = @ * BACKOFF]

\* one turn of `while True`: fn is awaited and ends as e
Tried(r, e, max) ==
    LET r1 == [r EXCEPT !.seen = Append(@, e)] IN
    IF e = "ok" THEN [r1 EXCEPT !.pc = "returned", !.out = e]
    ELSE IF ~Caught(r.exceptions, e) THEN [r1 EXCEPT !.pc = "raised", !.out = e]
    ELSE IF r.n + 1 >= max THEN [r1 EXCEPT !.pc = "raised", !.out = e, !.n = @ + 1]
    ELSE [r1 EXCEPT !.n = @ + 1, !.slept = Append(@, r.t), !.t = @ * BACKOFF]

RetryAttempt ==
    /\ retry.pc = "run"
    /\ \E e \in Outcomes : retry' = Tried(retry, e, MAX_RETRIES)
    /\ UNCHANGED <<lifecycle, px, ingress, gate, api>>

NextRetry == RetryCall \/ RetryAttempt

\* ---------------------------------------------------------------- API layer
\* POST /labs and DELETE /labs/{lab_id} of one user.  A handler is suspended
\* at each of its awaits, where other requests run.  lab.launch() is called
\* without a tag and returns a lab id that is in use nowhere.  The cache holds
\* for the user None (<<>>), the string "null" (<<"null", 0>>) or a lab id
\* (<<"lab", l>>).  launched counts the labs launched since the last DELETE
\* request arrived.
NoRequest ==
    [cache |-> <<>>, live |-> {}, launched |-> 0,
     req |-> [i \in 1..NumRequests |-> [kind |-> "none", pc |-> "idle", lab |-> 0,
                                        status |-> 0]]]

\* request slot i is free (slots are interchangeable: the lowest is used first)
Idle(i) ==
    /\ api.req[i].pc \in {"idle", "done"}
    /\ \A j \in 1..NumRequests : j < i => api.req[j].pc # "idle"

\* a lab id that occurs nowhere, as uuid4 gives (the lowest such, lab ids being
\* interchangeable)
Unused(l) ==
    LET free(k) == /\ k \notin api.live /\ api.cache # <<<<"lab", k>>>>
                   /\ \A j \in 1..NumRequests : api.req[j].lab # k
    IN free(l) /\ \A k \in Labs : k < l => ~free(k)

\* POST /labs arrives
NewLabCall(i) ==
    /\ Idle(i)
    /\ api' = [api EXCEPT !.req[i] = [kind |-> "post", pc |-> "verify", lab |-> 0,
                                      status |-> 0]]
    /\ UNCHANGED <<lifecycle, px, ingress, gate, retry>>

\* DELETE /labs/{lab_id} arrives
TerminateLabCall(i, l) ==
    /\ Idle(i)
    /\ l \in api.live \/ \A k \in Labs : k < l => k \in api.live
    /\ api' = [api EXCEPT !.req[i] = [kind |-> "delete", pc |-> "verify", lab |-> l,
                                      status |-> 0],
                          !.launched = 0]
    /\ UNCHANGED <<lifecycle, px, ingress, gate, retry>>

\* new_lab, from one await to the next
new_lab(i) ==
    LET r == api.req[i] IN
    /\ r.kind = "post"
    /\ \/ \* await verify_user(user_id): the user exists
          /\ r.pc = "verify"
          /\ api' = [api EXCEPT !.req[i].pc = "check"]
       \/ \* active_lab = await cache_events.get("active_labs", user_id)
          /\ r.pc = "check"
          /\ api' = IF api.cache # <<>> /\ api.cache # <<<<"null", 0>>>>
                    THEN [api EXCEPT !.req[i].pc = "done", !.req[i].status = 400]
                    ELSE [api EXCEPT !.req[i].pc = "launch"]
       \/ \* lab_id = await lab.launch(): a new lab ...
          /\ r.pc = "launch"
          /\ \E l \in Labs :
                 /\ Unused(l)
                 /\ api' = [api EXCEPT !.req[i].pc = "store", !.req[i].lab = l,
                                       !.live = @ \cup {l}, !.launched = @ + 1]
       \/ \* ... or RuntimeError (500)
          /\ r.pc = "launch"
          /\ api' = [api EXCEPT !.req[i].pc = "done", !.req[i].status = 500]
       \/ \* await cache_events.set("active_labs", user_id, lab_id)
          /\ r.pc = "store"
          /\ api' = [api EXCEPT !.cache = <<<<"lab", r.lab>>>>, !.req[i].pc = "link"]
       \/ \* await users.link_lab_to_user(user_id, lab_id); 201
          /\ r.pc = "link"
          /\ api' = [api EXCEPT !.req[i].pc = "done", !.req[i].status = 201]
    /\ UNCHANGED <<lifecycle, px, ingress, gate, retry>>

\* terminate_lab, from one await to the next
terminate_lab(i) ==
    LET r == api.req[i] IN
    /\ r.kind = "delete"
    /\ \/ \* await verify_user(user_id): the user exists
          /\ r.pc = "verify"
          /\ api' = [api EXCEPT !.req[i].pc = "stop"]
       \/ \* deleted = await lab.stop(lab_id); 404 when it is False
          /\ r.pc = "stop"
          /\ api' = IF r.lab \in api.live
                    THEN [api EXCEPT !.live = @ \ {r.lab}, !.req[i].pc = "clear"]
                    ELSE [api EXCEPT !.req[i].pc = "done", !.req[i].status = 404]
       \/ \* await cache_events.set("active_labs", user_id, "null")
          /\ r.pc = "clear"
          /\ api' = [api EXCEPT !.cache = <<<<"null", 0>>>>, !.req[i].pc = "unlink"]
       \/ \* await users.unlink_lab_from_user(user_id, lab_id); 200
          /\ r.pc = "unlink"
          /\ api' = [api EXCEPT !.req[i].pc = "done", !.req[i].status = 200]
    /\ UNCHANGED <<lifecycle, px, ingress, gate, retry>>

\* --------------------------------------------------------------- registry
Put(f, l, v) == [x \in DOMAIN f \cup {l} |-> IF x = l THEN v ELSE f[x]]
Pop(f, l) == [x \in DOMAIN f \ {l} |-> f[x]]

RECURSIVE SeqMax(_, _)
SeqMax(S, d) ==
    IF S = {} THEN d
    ELSE LET x == CHOOSE y \in S : TRUE
             m == SeqMax(S \ {x}, d)
         IN IF x > m THEN x ELSE m

\* max(self._active.values(), default=-1)
MaxIndex(f) == SeqMax({f[x] : x \in DOMAIN f}, -1)

CreatedKeys(c) == {c[i][1] : i \in 1..Len(c)}
CreatedAt(c, l) == c[CHOOSE i \in 1..Len(c) : c[i][1] = l][2]
CreatedPop(c, l) == SelectSeq(c, LAMBDA e : e[1] # l)
CreatedSet(c, l, ts) ==
    IF l \in CreatedKeys(c)
    THEN [i \in 1..Len(c) |-> IF c[i][1] = l THEN <<l, ts>> ELSE c[i]]
    ELSE Append(c, <<l, ts>>)

\* ------------------------------------------------------------ task records
Kinds == {"ing", "svc", "pod"}

\* One coroutine started by asyncio.gather in the pod back-end's stop()
Coro(k, l, where) == [kind |-> k, lab |-> l, pc |-> where, n |-> 0, snap |-> {}]
NoSub == [k \in Kinds |-> Coro(k, 0, "none")]
Running(c) == c.pc \notin {"none", "ok", "err"}
Orphans(sub) == [k \in Kinds |-> IF Running(sub[k]) THEN sub[k] ELSE NoSub[k]]
Draining(r) == \E k \in Kinds : Running(r.sub[k])

\* op: the call the task serves; fn: the function body it is in (a failed
\* launch runs stop() inside its except clause; the janitor runs stop() too).
\* The last six fields record what the call has done and met so far:
\*   timedOut  a readiness wait of the call ran into its deadline
\*   made      the resources the call has created ("unit", "svc", "ing")
\*   dels      the deletions stop() has attempted ("ing", "svc", "unit")
\*   found     stop() found lab_id in the registry
\*   err5xx    the orchestrator answered one of the call's requests with 5xx
\*   dup       lab_id was in the registry at some time during the launch
\*   again     the call is a stop(lab_id) that directly follows a stop(lab_id)
\*             which returned True
\*   after     the call directly follows, for the same lab, a launch of a new
\*             lab that returned lab_id ("launch"), a get_lab_info that returned an
\*             object ("info") or a stop that returned True ("stop")
\*   what      the shared resource an _ensure_* call is about
\*   conflict  a create of the call was answered 409 and raised
\*   listErr   the pod listing of the launch's _get_active_pods failed
\*   relaunched  a launch has registered lab_id since this stop() removed it
\*   left      what get_time_remaining() has returned: <<>> for None
\*   info      what get_lab_info() has returned: <<>> for None
\* and three more record the janitor's current (or, asleep, its last) tick:
\*   expired   the labs the tick found expired
\*   called    the labs on which the tick has awaited stop()
\*   failed    the labs whose stop() returned False to the tick
Fresh(o) ==
    [op |-> o, fn |-> "none", lab |-> 0, pc |-> "idle", n |-> 0, idx |-> -1,
     target |-> 0, cur |-> 0, snap |-> {}, ret |-> "none",
     sub |-> NoSub, queue |-> <<>>,
     timedOut |-> FALSE, made |-> {}, dels |-> {}, found |-> FALSE,
     err5xx |-> FALSE, dup |-> FALSE, again |-> FALSE,
     expired |-> {}, called |-> {}, failed |-> {},
     left |-> <<>>, info |-> <<>>, after |-> "none",
     what |-> "none", conflict |-> FALSE, listErr |-> FALSE,
     relaunched |-> FALSE]

\* the call has returned: its outcome, and what it has done
Done(r, val) ==
    [Fresh(r.op) EXCEPT !.lab = r.lab, !.pc = "done", !.ret = val,
                        !.idx = IF r.op = "launch" THEN r.idx ELSE -1,
                        !.sub = Orphans(r.sub),
                        !.timedOut = r.timedOut, !.made = r.made, !.dels = r.dels,
                        !.found = r.found, !.err5xx = r.err5xx, !.dup = r.dup,
                        !.again = r.again, !.after = r.after,
                        !.what = r.what, !.conflict = r.conflict,
                        !.listErr = r.listErr]

\* the task awaits the first call of the next retry-wrapped helper
Enter(r, where) == [r EXCEPT !.pc = where, !.n = 0, !.snap = {}, !.cur = 0]

\* The local outcome of one step: the task's record and the registry
K(r, a, c) == [r |-> r, a |-> a, c |-> c]

Do(p, k) ==
    /\ task' = [q \in Procs |->
                  LET x == IF q = p THEN k.r ELSE task[q]
                      registers == /\ k.r.op = "launch" /\ k.r.ret = "ok"
                                   /\ k.r.pc = "done" /\ task[p].pc # "done"
                      y == IF x.op = "launch" /\ x.pc \notin {"idle", "done"}
                              /\ x.lab \in DOMAIN k.a
                           THEN [x EXCEPT !.dup = TRUE] ELSE x
                  IN IF registers /\ q # p /\ y.fn = "stop" /\ y.lab = k.r.lab
                        /\ y.pc \notin {"idle", "done"}
                     THEN [y EXCEPT !.relaunched = TRUE] ELSE y]
    /\ active' = k.a
    /\ created' = k.c

Ref(r) == IF backend = "sts" THEN r.idx ELSE pod_name(r.lab)

FirstPc(k) == CASE k = "ing" -> "ing_read"
                [] k = "svc" -> "svc_delete"
                [] k = "pod" -> "pod_delete"

\* ------------------------------------------------- control flow of the calls
RECURSIVE StopBody(_, _, _)

\* the janitor's locals between two stop() of one tick
Between(r, where) ==
    [Fresh("janitor") EXCEPT !.pc = where, !.queue = r.queue,
                             !.sub = Orphans(r.sub), !.expired = r.expired,
                             !.called = r.called, !.failed = r.failed]

\* (variant) the first stop() that fails ends the janitor task
JanitorLoopDies(r, a, c) ==
    IF r.failed # {}
    THEN K([Between(r, "done") EXCEPT !.ret = "error"], a, c)
    ELSE IF r.queue = <<>>
         THEN K(Between(r, "sleep"), a, c)
         ELSE StopBody([Between(r, "idle") EXCEPT
                            !.lab = Head(r.queue), !.queue = Tail(r.queue),
                            !.called = @ \cup {Head(r.queue)}], a, c)

\* _janitor_loop: the "for lab_id in expired" loop, then sleep(60)
JanitorLoop(r, a, c) ==
    IF r.queue = <<>>
    THEN K(Between(r, "sleep"), a, c)
    ELSE StopBody([Between(r, "idle") EXCEPT
                       !.lab = Head(r.queue), !.queue = Tail(r.queue),
                       !.called = @ \cup {Head(r.queue)}], a, c)

\* (variant) stop() answers True whatever happened
StopReturnTrue(r, val, a, c) ==
    IF r.op = "stop" THEN K(Done(r, "true"), a, c) ELSE K(Done(r, "error"), a, c)

\* (variant) a stop() that returns False ends the janitor's tick
StopReturnEndsTick(r, val, a, c) ==
    CASE r.op = "stop" -> K(Done(r, val), a, c)
      [] r.op = "launch" -> K(Done(r, "error"), a, c)
      [] r.op = "janitor" ->
           IF val = "false"
           THEN K([Between(r, IF Draining(r) THEN "drain" ELSE "sleep") EXCEPT
                       !.queue = <<>>, !.failed = @ \cup {r.lab}], a, c)
           ELSE IF Draining(r) THEN K(Between(r, "drain"), a, c)
                ELSE JanitorLoop(r, a, c)

\* stop() returns val to whoever awaits it.  Coroutines of a gather that has
\* raised keep running: the task goes on once they have finished.
StopReturn(r, val, a, c) ==
    CASE r.op = "stop" -> K(Done(r, val), a, c)
      [] r.op = "launch" -> K(Done(r, "error"), a, c)
      [] r.op = "janitor" ->
           LET r1 == IF val = "false" THEN [r EXCEPT !.failed = @ \cup {r.lab}]
                     ELSE r
           IN IF Draining(r1) THEN K(Between(r1, "drain"), a, c)
              ELSE JanitorLoop(r1, a, c)

\* (variant) stop() checks the registry and leaves the entry in it
StopBodyKeeps(r0, a, c) ==
    LET r == [r0 EXCEPT !.fn = "stop", !.found = (r0.lab \in DOMAIN a)]
    IN IF r.lab \notin DOMAIN a
       THEN StopReturn(r, "false", a, c)
       ELSE IF backend = "sts"
            THEN K(Enter([r EXCEPT !.idx = a[r.lab]], "ing_read"), a, c)
            ELSE K([r EXCEPT !.pc = "gather",
                             !.sub = [k \in Kinds |-> Coro(k, r.lab, FirstPc(k))]],
                   a, c)

\* stop(): the registry check and pop, up to the first orchestrator call
StopBody(r0, a, c) ==
    LET r == [r0 EXCEPT !.fn = "stop", !.found = (r0.lab \in DOMAIN a)]
    IN IF r.lab \notin DOMAIN a
       THEN StopReturn(r, "false", a, c)
       ELSE IF backend = "sts"
            THEN K(Enter([r EXCEPT !.idx = a[r.lab]], "ing_read"),
                   Pop(a, r.lab), CreatedPop(c, r.lab))
            ELSE K([r EXCEPT !.pc = "gather",
                             !.sub = [k \in Kinds |-> Coro(k, r.lab, FirstPc(k))]],
                   Pop(a, r.lab), CreatedPop(c, r.lab))

\* (variant) stop() restores the entry and answers True after a failed cleanup
StopFailedTrue(r, a, c) ==
    StopReturn(r, "true", IF backend = "sts" THEN Put(a, r.lab, r.idx) ELSE a, c)

\* stop(): except Exception
StopFailed(r, a, c) ==
    IF backend = "sts"
    THEN StopReturn(r, "false", Put(a, r.lab, r.idx), c)
    ELSE StopReturn(r, "false", a, c)

\* (variant) launch() registers the lab first and cleans up nothing
RaiseRegistered(r, a, c) ==
    IF r.fn = "launch"
    THEN K(Done(r, "error"), Put(a, r.lab, IF backend = "sts" THEN r.idx ELSE r.lab),
           CreatedSet(c, r.lab, now))
    ELSE StopFailed(r, a, c)

\* an exception leaves a retry-wrapped helper: launch() runs its except
\* clause, which awaits stop(lab_id); stop() runs its own
Raise(r, a, c) ==
    IF r.fn = "launch" THEN StopBody(r, a, c) ELSE StopFailed(r, a, c)

\* retry_async: count the failure, re-raise at max_retries, else run fn again
RetryFail(r, restart, a, c) ==
    IF r.n + 1 >= MAX_RETRIES
    THEN Raise(r, a, c)
    ELSE K([r EXCEPT !.n = r.n + 1, !.pc = restart, !.snap = {}, !.cur = 0], a, c)

\* launch(): register the lab and return lab_id
Register(r, a, c) ==
    K(Done(r, "ok"), Put(a, r.lab, Ref(r)), CreatedSet(c, r.lab, now))

\* _scale(replicas): clamp, then read the StatefulSet
ScaleStart(r, target) ==
    Enter([r EXCEPT !.target = IF target < 0 THEN 0 ELSE target], "scale_read")

\* (variant) launch() registers the lab as soon as it has its replica
AfterScaleRegisters(r, a, c) ==
    IF r.fn = "launch"
    THEN K(Enter(r, "svc_create"), Put(a, r.lab, Ref(r)), CreatedSet(c, r.lab, now))
    ELSE StopReturn(r, "true", a, c)

AfterScale(r, a, c) ==
    IF r.fn = "launch" THEN K(Enter(r, "svc_create"), a, c)
    ELSE StopReturn(r, "true", a, c)

\* stop() of the StatefulSet back-end after _delete_lab_svc
AfterSvcDelete(r0, a, c) ==
    LET r == [r0 EXCEPT !.dels = @ \cup {"unit"}]
        highest_idx == MaxIndex(a)
    IN IF r.idx > highest_idx
       THEN K(ScaleStart(r, highest_idx + 1), a, c)
       ELSE StopReturn(r, "true", a, c)

AfterIngress(r, a, c) ==
    IF r.fn = "launch" THEN Register(r, a, c)
    ELSE K(Enter(r, "svc_delete"), a, c)

\* the orchestrator answered 5xx
Hit(r) == [r EXCEPT !.err5xx = TRUE]

Init ==
    /\ backend \in {"sts", "pod"}
    /\ active = <<>>
    /\ created = <<>>
    /\ now = 0
    /\ task = [p \in Procs |-> IF p = Jan THEN [Fresh("janitor") EXCEPT !.pc = "sleep"]
                                ELSE Fresh("none")]
    /\ replicas = 0
    /\ ready = 0
    /\ pods = [l \in Labs |-> "absent"]
    /\ svcs = {}
    /\ ingExists = TRUE
    /\ rules = {}
    /\ down = FALSE
    /\ outages = 0
    /\ calls = 0
    /\ scaffold = {"sts", "headless"}
    /\ px = NoSession
    /\ ingress = NoPatch
    /\ gate = NoCaller
    /\ retry = NoRetry
    /\ api = NoRequest

\* ------------------------------------------------------------- API calls
\* A task serves one call after the other, the next one once the call and the
\* coroutines it has started are finished.  Tasks are interchangeable: task
\* t+1 is used only after task t.
Free(t) == task[t].pc \in {"idle", "done"} /\ ~Draining(task[t])
CanStart(t) == Free(t) /\ \A u \in Tasks : u < t => task[u].pc # "idle"

\* no API call is in progress
Quiet == \A u \in Tasks : Free(u)

\* Lab ids are interchangeable too: among the ids that occur nowhere in the
\* state, callers use the lowest.
InUse(l) ==
    \/ l \in DOMAIN active \/ l \in CreatedKeys(created)
    \/ l \in svcs \/ l \in rules \/ pods[l] # "absent"
    \/ \E p \in Procs : l = task[p].lab \/ l \in task[p].snap
                         \/ \E i \in 1..Len(task[p].queue) : task[p].queue[i] = l
                         \/ \E k \in Kinds : l \in task[p].sub[k].snap
                                              \/ l = task[p].sub[k].lab

LabChoice(l) == InUse(l) \/ \A k \in Labs : k < l => InUse(k)

\* launch(tag=l) is called
LaunchCall(t, l) ==
    /\ CanStart(t)
    /\ LabChoice(l)
    /\ calls < MaxCalls
    /\ calls' = calls + 1
    /\ LET r == [Fresh("launch") EXCEPT !.fn = "launch", !.lab = l]
       IN Do(t, K(Enter(r, IF backend = "sts" THEN "ensure_read" ELSE "pod_create"),
                  active, created))
    /\ UNCHANGED <<backend, now, orch, down, outages, side>>

\* what the caller of task t has seen last of lab l
After(t, l) ==
    LET prev == task[t] IN
    IF prev.pc # "done" \/ prev.lab # l THEN "none"
    ELSE CASE prev.op = "launch" /\ prev.ret = "ok" /\ ~prev.dup -> "launch"
           [] prev.op = "info" /\ prev.info # <<>> -> "info"
           [] prev.op = "stop" /\ prev.ret = "true" -> "stop"
           [] OTHER -> "none"

\* stop(l) is called
StopCall(t, l) ==
    /\ CanStart(t)
    /\ LabChoice(l)
    /\ calls < MaxCalls
    /\ calls' = calls + 1
    /\ LET prev == task[t]
           again == prev.op = "stop" /\ prev.lab = l /\ prev.ret = "true"
       IN Do(t, StopBody([Fresh("stop") EXCEPT !.lab = l, !.again = again,
                                               !.after = After(t, l)],
                         active, created))
    /\ UNCHANGED <<backend, now, orch, down, outages, side>>

\* (variant) _time_left without the max(0, ...)
time_left_unclamped(c, l, t) ==
    IF l \notin CreatedKeys(c) THEN <<>>
    ELSE LET left == POD_TTL_SECS - ((t - CreatedAt(c, l)) \div Res)
         IN <<[minutes |-> left \div 60, seconds |-> left % 60,
               total_seconds |-> left]>>

\* _time_left at time t: None (<<>>) without a creation time, else the seconds
\* left of the TTL, the elapsed time truncated to whole seconds
time_left(c, l, t) ==
    IF l \notin CreatedKeys(c) THEN <<>>
    ELSE LET gone == (t - CreatedAt(c, l)) \div Res
             left == IF POD_TTL_SECS - gone > 0 THEN POD_TTL_SECS - gone ELSE 0
         IN <<[minutes |-> left \div 60, seconds |-> left % 60,
               total_seconds |-> left]>>

\* get_time_remaining(l) is called, and returns
TimeCall(t, l) ==
    /\ CanStart(t)
    /\ LabChoice(l)
    /\ Do(t, K([Done([Fresh("time") EXCEPT !.lab = l], "ok") EXCEPT
                    !.left = time_left(created, l, now)], active, created))
    /\ UNCHANGED <<backend, now, orch, env>>

\* get_lab_info(l) is called: None for a lab that is not in the registry,
\* else the pod of the lab is asked for
InfoCall(t, l) ==
    /\ CanStart(t)
    /\ LabChoice(l)
    /\ LET r == [Fresh("info") EXCEPT !.lab = l, !.after = After(t, l)]
       IN Do(t, IF l \notin DOMAIN active
                THEN K(Done(r, "null"), active, created)
                ELSE K([r EXCEPT !.pc = "info_read",
                                 !.idx = IF backend = "sts" THEN active[l] ELSE -1],
                       active, created))
    /\ UNCHANGED <<backend, now, orch, env>>

\* the status get_lab_info can derive from what read_namespaced_pod answers:
\* the phase in lower case, "starting" for a running pod that is not ready,
\* "error-<status>" for an ApiException
Statuses(r) ==
    IF down THEN {"error-500"}
    ELSE IF backend = "sts"
         THEN IF r.idx >= replicas THEN {"error-404"}
              ELSE IF r.idx < ready THEN {"running"}
              ELSE {"pending", "starting"}
         ELSE CASE pods[r.lab] = "absent" -> {"error-404"}
                [] pods[r.lab] = "Pending" -> {"pending"}
                [] OTHER -> {"running", "starting"}

\* (variant) get_lab_info lets the ApiException of the pod read through
InfoReadRaises(p) ==
    LET r == task[p] IN
    /\ r.pc = "info_read"
    /\ \E st \in Statuses(r) :
           Do(p, K(IF down THEN Done(Hit(r), "error")
                   ELSE [Done(r, "info") EXCEPT
                            !.info = <<[lab_id |-> r.lab, hostname |-> lab_host(r.lab),
                                        status |-> st, ref |-> Ref(r),
                                        time_remaining |-> time_left(created, r.lab, now)]>>],
                   active, created))
    /\ UNCHANGED <<backend, now, orch, env>>

\* get_lab_info: the pod has been read, the answer is put together
InfoRead(p) ==
    LET r == task[p] IN
    /\ r.pc = "info_read"
    /\ \E st \in Statuses(r) :
           Do(p, K([Done(IF down THEN Hit(r) ELSE r, "info") EXCEPT
                       !.info = <<[lab_id |-> r.lab, hostname |-> lab_host(r.lab),
                                   status |-> st, ref |-> Ref(r),
                                   time_remaining |-> time_left(created, r.lab, now)]>>],
                   active, created))
    /\ UNCHANGED <<backend, now, orch, env>>

\* ------------------------------------------- StatefulSet back-end helpers
Shared == {"sts", "headless", "ing"}
Exists(w) == IF w = "ing" THEN ingExists ELSE w \in scaffold

\* the resource an _ensure_* call in progress is about
Ensured(r) == IF r.op = "launch" THEN "sts" ELSE r.what

\* (variant) _ensure_* without retry_async: the exception goes to the caller
EnsureFailRaises(r, a, c) ==
    IF r.op = "launch" THEN Raise(r, a, c) ELSE K(Done(r, "error"), a, c)

\* retry_async around _ensure_*
EnsureFail(r, a, c) ==
    IF r.op = "launch" THEN RetryFail(r, "ensure_read", a, c)
    ELSE IF r.n + 1 >= MAX_RETRIES THEN K(Done(r, "error"), a, c)
    ELSE K([r EXCEPT !.n = r.n + 1, !.pc = "ensure_read"], a, c)

\* _ensure_* returns
EnsureDone(r, a, c) ==
    IF r.op = "launch" THEN K(Enter(r, "find_idx"), a, c) ELSE K(Done(r, "ok"), a, c)

\* _ensure_statefulset: the read finds the StatefulSet that init() has made
EnsureRead(p) ==
    LET r == task[p] IN
    /\ r.pc = "ensure_read"
    /\ Do(p, IF down THEN EnsureFail(Hit(r), active, created)
             ELSE IF Exists(Ensured(r)) THEN EnsureDone(r, active, created)
             ELSE K([r EXCEPT !.pc = "ensure_create"], active, created))
    /\ UNCHANGED <<backend, now, orch, env>>

\* ... the read was answered 404: the create.  A 409 is an ApiException like
\* any other here.
EnsureCreate(p) ==
    LET r == task[p]
        w == Ensured(r)
    IN
    /\ r.pc = "ensure_create"
    /\ IF down \/ Exists(w)
       THEN /\ Do(p, EnsureFail(IF down THEN Hit(r) ELSE [r EXCEPT !.conflict = TRUE],
                                active, created))
            /\ UNCHANGED <<scaffold, ingExists, rules>>
       ELSE /\ scaffold' = IF w = "ing" THEN scaffold ELSE scaffold \cup {w}
            /\ ingExists' = (ingExists \/ w = "ing")
            /\ rules' = IF w = "ing" THEN {} ELSE rules
            /\ Do(p, EnsureDone(r, active, created))
    /\ UNCHANGED <<backend, now, replicas, ready, pods, svcs, down, outages, calls,
                   px, ingress, gate, retry, api>>

\* init() and launch() call _ensure_statefulset, _ensure_headless or
\* _ensure_ingress
EnsureCall(t, w) ==
    /\ CanStart(t)
    /\ Do(t, K([Fresh("ensure") EXCEPT !.fn = "ensure", !.what = w,
                                       !.pc = "ensure_read"], active, created))
    /\ UNCHANGED <<backend, now, orch, env>>

\* _get_active_pods: the indices of the pool's pods ([] on any exception)
ActivePods == IF down THEN {} ELSE 0..(replicas - 1)

\* idx = 0; while idx in active_indices: idx += 1
LowestFree(S) == CHOOSE i \in 0..Cardinality(S) :
                    i \notin S /\ \A j \in 0..(i - 1) : j \in S

\* (variant) launch() never scales the pool up
FindIndexNoScale(p) ==
    LET r == task[p]
        idx == LowestFree(ActivePods)
    IN
    /\ r.pc = "find_idx"
    /\ idx < MaxReplicas
    /\ Do(p, K(Enter([r EXCEPT !.idx = idx, !.listErr = down], "svc_create"),
               active, created))
    /\ UNCHANGED <<backend, now, orch, env>>

\* launch(): _find_available_index, then the scale-up decision
FindIndex(p) ==
    LET r == task[p]
        idx == LowestFree(ActivePods)
        max_index == MaxIndex(active)
        r1 == [r EXCEPT !.idx = idx, !.listErr = down]
    IN
    /\ r.pc = "find_idx"
    /\ idx < MaxReplicas
    /\ Do(p, IF idx > max_index THEN K(ScaleStart(r1, idx + 1), active, created)
             ELSE K(Enter(r1, "svc_create"), active, created))
    /\ UNCHANGED <<backend, now, orch, env>>

ScaleRead(p) ==
    LET r == task[p] IN
    /\ r.pc = "scale_read"
    /\ Do(p, IF down THEN RetryFail(Hit(r), "scale_read", active, created)
             ELSE IF replicas = r.target THEN AfterScale(r, active, created)
             ELSE K([r EXCEPT !.pc = "scale_patch", !.cur = replicas], active, created))
    /\ UNCHANGED <<backend, now, orch, env>>

ScalePatch(p) ==
    LET r == task[p] IN
    /\ r.pc = "scale_patch"
    /\ IF down
       THEN /\ Do(p, RetryFail(Hit(r), "scale_read", active, created))
            /\ UNCHANGED orch
       ELSE /\ replicas' = r.target
            /\ ready' = IF ready > r.target THEN r.target ELSE ready
            /\ Do(p, IF r.target > r.cur
                     THEN K([r EXCEPT !.pc = "scale_wait", !.cur = 0,
                                      !.made = IF r.fn = "launch" THEN @ \cup {"unit"} ELSE @],
                            active, created)
                     ELSE AfterScale(r, active, created))
            /\ UNCHANGED <<pods, svcs, ingExists, rules>>
    /\ UNCHANGED <<backend, now, env>>

\* The poll loop of _scale: a read finds the replicas ready (the kubelet has
\* brought them up meanwhile)
ScaleWait(p) ==
    LET r == task[p] IN
    /\ r.pc = "scale_wait"
    /\ IF down
       THEN /\ Do(p, RetryFail(Hit(r), "scale_read", active, created))
            /\ ready' = ready
       ELSE /\ replicas >= r.target
            /\ ready' = IF ready > r.target THEN ready ELSE r.target
            /\ Do(p, AfterScale(r, active, created))
    /\ UNCHANGED <<backend, now, env, replicas, pods, svcs, ingExists, rules>>

\* ... or the 60 s deadline passes first: RuntimeError
ScaleTimeout(p) ==
    LET r == task[p] IN
    /\ r.pc = "scale_wait"
    /\ ~down
    /\ ready < r.target
    /\ Do(p, RetryFail([r EXCEPT !.timedOut = TRUE], "scale_read", active, created))
    /\ UNCHANGED <<backend, now, orch, env>>

\* ------------------------------------------------- helpers of both back-ends
\* _create_lab_svc (409 is success)
SvcCreate(p) ==
    LET r == task[p] IN
    /\ r.pc = "svc_create"
    /\ IF down
       THEN /\ Do(p, RetryFail(Hit(r), "svc_create", active, created))
            /\ UNCHANGED orch
       ELSE /\ svcs' = svcs \cup {r.lab}
            /\ Do(p, K(Enter([r EXCEPT !.made = IF r.lab \in svcs THEN @ ELSE @ \cup {"svc"}],
                             "ing_read"), active, created))
            /\ UNCHANGED <<replicas, ready, pods, ingExists, rules>>
    /\ UNCHANGED <<backend, now, env>>

\* _patch_ingress as awaited by launch() (add) and by the StatefulSet stop():
\* read_namespaced_ingress
IngRead(p) ==
    LET r0 == task[p]
        r == IF r0.fn = "stop" THEN [r0 EXCEPT !.dels = @ \cup {"ing"}] ELSE r0
    IN
    /\ r0.pc = "ing_read"
    /\ Do(p, IF down \/ ~ingExists
             THEN RetryFail(IF down THEN Hit(r) ELSE r, "ing_read", active, created)
             ELSE K([r EXCEPT !.pc = "ing_write", !.snap = rules], active, created))
    /\ UNCHANGED <<backend, now, orch, env>>

\* (variant) the change of one host rule is applied to the Ingress as it is
\* at the time of the write
IngWriteMerged(p) ==
    LET r == task[p]
        add == (r.fn = "launch")
    IN
    /\ r.pc = "ing_write"
    /\ IF down \/ ~ingExists
       THEN /\ Do(p, RetryFail(IF down THEN Hit(r) ELSE r, "ing_read", active, created))
            /\ UNCHANGED orch
       ELSE /\ rules' = (rules \ {r.lab}) \cup (IF add THEN {r.lab} ELSE {})
            /\ Do(p, AfterIngress([r EXCEPT !.made = IF add THEN @ \cup {"ing"} ELSE @],
                                   active, created))
            /\ UNCHANGED <<replicas, ready, pods, svcs, ingExists>>
    /\ UNCHANGED <<backend, now, env>>

\* ... and patch_namespaced_ingress with the rules computed from the read: the
\* orchestrator stores the rules it is sent (last writer wins)
IngWrite(p) ==
    LET r == task[p]
        add == (r.fn = "launch")
    IN
    /\ r.pc = "ing_write"
    /\ IF down \/ ~ingExists
       THEN /\ Do(p, RetryFail(IF down THEN Hit(r) ELSE r, "ing_read", active, created))
            /\ UNCHANGED orch
       ELSE /\ rules' = (r.snap \ {r.lab}) \cup (IF add THEN {r.lab} ELSE {})
            /\ Do(p, AfterIngress([r EXCEPT !.made = IF add THEN @ \cup {"ing"} ELSE @],
                                   active, created))
            /\ UNCHANGED <<replicas, ready, pods, svcs, ingExists>>
    /\ UNCHANGED <<backend, now, env>>

\* _delete_lab_svc as awaited by the StatefulSet stop() (404 is success)
SvcDelete(p) ==
    LET r == [task[p] EXCEPT !.dels = @ \cup {"svc"}] IN
    /\ task[p].pc = "svc_delete"
    /\ IF down
       THEN /\ Do(p, RetryFail(Hit(r), "svc_delete", active, created))
            /\ UNCHANGED orch
       ELSE /\ svcs' = svcs \ {r.lab}
            /\ Do(p, AfterSvcDelete(r, active, created))
            /\ UNCHANGED <<replicas, ready, pods, ingExists, rules>>
    /\ UNCHANGED <<backend, now, env>>

\* ------------------------------------------------------ pod back-end helpers
\* _create_lab_pod: create_namespaced_pod (409 returns pod_id at once)
PodCreate(p) ==
    LET r == task[p] IN
    /\ r.pc = "pod_create"
    /\ IF down
       THEN /\ Do(p, RetryFail(Hit(r), "pod_create", active, created))
            /\ UNCHANGED orch
       ELSE IF pods[r.lab] # "absent"
       THEN /\ Do(p, K(Enter(r, "svc_create"), active, created))
            /\ UNCHANGED orch
       ELSE /\ pods' = [pods EXCEPT ![r.lab] = "Pending"]
            /\ Do(p, K([r EXCEPT !.pc = "pod_wait", !.made = @ \cup {"unit"}],
                        active, created))
            /\ UNCHANGED <<replicas, ready, svcs, ingExists, rules>>
    /\ UNCHANGED <<backend, now, env>>

\* The poll loop of _create_lab_pod: a read finds the pod Running (the kubelet
\* has started it meanwhile)
PodWait(p) ==
    LET r == task[p] IN
    /\ r.pc = "pod_wait"
    /\ IF down \/ pods[r.lab] = "absent"
       THEN /\ Do(p, RetryFail(IF down THEN Hit(r) ELSE r, "pod_create", active, created))
            /\ pods' = pods
       ELSE /\ pods' = [pods EXCEPT ![r.lab] = "Running"]
            /\ Do(p, K(Enter(r, "svc_create"), active, created))
    /\ UNCHANGED <<backend, now, env, replicas, ready, svcs, ingExists, rules>>

\* ... or the 60 s deadline passes first: a warning, and pod_id is returned
PodTimeout(p) ==
    LET r == task[p] IN
    /\ r.pc = "pod_wait"
    /\ ~down
    /\ pods[r.lab] = "Pending"
    /\ Do(p, K(Enter([r EXCEPT !.timedOut = TRUE], "svc_create"), active, created))
    /\ UNCHANGED <<backend, now, orch, env>>

\* retry_async around one coroutine of the gather
CoFail(c, restart) ==
    IF c.n + 1 >= MAX_RETRIES THEN Coro(c.kind, c.lab, "err")
    ELSE [c EXCEPT !.n = c.n + 1, !.pc = restart, !.snap = {}]

\* One orchestrator call of _patch_ingress(add=False), _delete_lab_svc or
\* _delete_lab_pod of the pod back-end: the coroutine afterwards
CoNext(c) ==
    CASE c.pc = "ing_read" ->
           IF down THEN CoFail(c, "ing_read")
           ELSE IF ~ingExists THEN Coro(c.kind, c.lab, "ok")
           ELSE [c EXCEPT !.pc = "ing_write", !.snap = rules]
      [] c.pc = "ing_write" ->
           IF down THEN CoFail(c, "ing_read") ELSE Coro(c.kind, c.lab, "ok")
      [] c.pc = "svc_delete" ->
           IF down THEN CoFail(c, "svc_delete") ELSE Coro(c.kind, c.lab, "ok")
      [] c.pc = "pod_delete" ->
           IF down THEN CoFail(c, "pod_delete") ELSE Coro(c.kind, c.lab, "ok")

\* ... and its effect on the orchestrator
CoEffect(c) ==
    CASE ~down /\ c.pc = "ing_write" /\ ingExists ->
           /\ rules' = c.snap \ {c.lab}
           /\ UNCHANGED <<replicas, ready, pods, svcs, ingExists>>
      [] ~down /\ c.pc = "svc_delete" ->
           /\ svcs' = svcs \ {c.lab}
           /\ UNCHANGED <<replicas, ready, pods, ingExists, rules>>
      [] ~down /\ c.pc = "pod_delete" ->
           /\ pods' = [pods EXCEPT ![c.lab] = "absent"]
           /\ UNCHANGED <<replicas, ready, svcs, ingExists, rules>>
      [] OTHER -> UNCHANGED orch

DelName(k) == IF k = "pod" THEN "unit" ELSE k

\* stop() of the pod back-end awaiting asyncio.gather: one coroutine steps.
\* The first exception ends the await (the other coroutines keep running);
\* otherwise the await ends when all three are done.
GatherStep(p, k) ==
    LET r == task[p]
        c == r.sub[k]
        c2 == CoNext(c)
        r1 == [r EXCEPT !.sub[k] = c2, !.dels = @ \cup {DelName(k)},
                        !.err5xx = @ \/ down]
    IN
    /\ r.pc = "gather"
    /\ Running(c)
    /\ CoEffect(c)
    /\ Do(p, IF c2.pc = "err" THEN StopFailed(r1, active, created)
             ELSE IF \A j \in Kinds : r1.sub[j].pc = "ok"
                  THEN StopReturn(r1, "true", active, created)
                  ELSE K(r1, active, created))
    /\ UNCHANGED <<backend, now, env>>

\* a coroutine of a gather whose stop() has already returned False
OrphanStep(p, k) ==
    LET r == task[p]
        c == r.sub[k]
        r1 == [r EXCEPT !.sub = Orphans([r.sub EXCEPT ![k] = CoNext(c)]),
                        !.dels = @ \cup {DelName(k)}]
    IN
    /\ r.pc \in {"done", "drain"}
    /\ Running(c)
    /\ CoEffect(c)
    /\ Do(p, IF r.pc = "drain" /\ ~Draining(r1) THEN JanitorLoop(r1, active, created)
             ELSE K(r1, active, created))
    /\ UNCHANGED <<backend, now, env>>

\* ----------------------------------------------------------------- janitor
\* the labs of self._created, in dict order, older than the TTL
Expired(c, t) ==
    LET old == SelectSeq(c, LAMBDA e : t - e[2] > POD_TTL_SECS * Res)
    IN [i \in 1..Len(old) |-> old[i][1]]

\* the janitor wakes up and finds expired labs
JanitorTick ==
    LET r == task[Jan]
        q == Expired(created, now)
    IN
    /\ r.pc = "sleep"
    /\ q # <<>>
    /\ Do(Jan, JanitorLoop([r EXCEPT !.queue = q,
                                     !.expired = {q[i] : i \in 1..Len(q)},
                                     !.called = {}, !.failed = {}],
                           active, created))
    /\ UNCHANGED <<backend, now, orch, env>>

Tick ==
    /\ now < MaxTime
    /\ now' = now + 1
    /\ UNCHANGED <<backend, active, created, task, orch, env>>

\* ------------------------------------------------------------------- close
\* self._janitor.cancel(): CancelledError is thrown into the janitor at the
\* await it is suspended in, and into the coroutines of the gather it may be
\* awaiting; none of them takes another step of its own.  Coroutines of an
\* earlier gather, which nobody awaits any more, are not cancelled.  A
\* request that a cancelled coroutine has in flight is taken not to reach
\* the orchestrator.
Cancel(r) ==
    IF r.pc = "done" THEN r
    ELSE [r EXCEPT !.pc = "cancelled",
                   !.sub = IF r.pc = "gather" THEN NoSub ELSE Orphans(r.sub)]

\* close() is called: it cancels the janitor and awaits it
CloseCall(t) ==
    /\ CanStart(t)
    /\ calls < MaxCalls
    /\ calls' = calls + 1
    /\ task' = [task EXCEPT ![t] = [Fresh("close") EXCEPT !.fn = "close",
                                                         !.pc = "await_janitor"],
                            ![Jan] = Cancel(@)]
    /\ UNCHANGED <<backend, active, created, now, orch, down, outages, side>>

\* CancelledError leaves _janitor_loop: no except clause on its way catches
\* it, the registry stays as the interrupted stop() left it
JanitorCancelled ==
    /\ task[Jan].pc = "cancelled"
    /\ task' = [task EXCEPT ![Jan] = [@ EXCEPT !.pc = "done", !.ret = "cancelled"]]
    /\ UNCHANGED <<backend, active, created, now, orch, env>>

\* (variant) close() does not await the janitor
CloseReturnAtOnce(t) ==
    /\ task[t].pc = "await_janitor"
    /\ task' = [task EXCEPT ![t] = Done(@, "ok")]
    /\ UNCHANGED <<backend, active, created, now, orch, env>>

\* `await self._janitor` is over, the CancelledError it raises is suppressed
CloseReturn(t) ==
    /\ task[t].pc = "await_janitor"
    /\ task[Jan].pc = "done"
    /\ task' = [task EXCEPT ![t] = Done(@, "ok")]
    /\ UNCHANGED <<backend, active, created, now, orch, env>>

\* ------------------------------------------------------------ orchestrator
\* a transient outage of the control plane: every request is answered 5xx
OutageBegin ==
    /\ ~down
    /\ outages < MaxOutages
    /\ down' = TRUE
    /\ outages' = outages + 1
    /\ UNCHANGED <<backend, active, created, now, task, orch, calls, side>>

OutageEnd ==
    /\ down
    /\ down' = FALSE
    /\ UNCHANGED <<backend, active, created, now, task, orch, outages, calls, side>>

\* the shared Ingress object is deleted by someone else (kubectl, helm)
IngressGone ==
    /\ ingExists
    /\ ingExists' = FALSE /\ rules' = {}
    /\ UNCHANGED <<backend, active, created, now, task, env,
                   replicas, ready, pods, svcs>>

\* ------------------------------------------------------------ specifications
Step(p) ==
    \/ EnsureRead(p) \/ FindIndex(p)
    \/ ScaleRead(p) \/ ScalePatch(p) \/ ScaleWait(p)
    \/ PodCreate(p) \/ PodWait(p)
    \/ SvcCreate(p) \/ IngRead(p) \/ IngWrite(p) \/ SvcDelete(p)
    \/ \E k \in Kinds : GatherStep(p, k)

\* what only happens when the orchestrator is slow or failing
Late(p) ==
    \/ ScaleTimeout(p) \/ PodTimeout(p)
    \/ \E k \in Kinds : OrphanStep(p, k)

Faults == OutageBegin \/ OutageEnd \/ IngressGone

\* API calls made one after the other
SeqLaunch(l) == Quiet /\ LaunchCall(1, l)
SeqStop(l) == Quiet /\ StopCall(1, l)

\* Spec: the API called sequentially while the orchestrator may be slow, be
\* down for a while and lose the Ingress; no lab reaches its TTL.
Next ==
    \/ \E l \in Labs : SeqLaunch(l) \/ SeqStop(l)
    \/ \E t \in Tasks : Step(t) \/ Late(t)
    \/ Faults

Spec == Init /\ [][Next]_vars

SeqInfo(l) == Quiet /\ InfoCall(1, l)
SeqTime(l) == Quiet /\ TimeCall(1, l)

\* SpecQuery: the API, its queries included, called sequentially while the
\* orchestrator may be slow or down for a while; no time passes otherwise.
NextQuery ==
    \/ \E l \in Labs : SeqLaunch(l) \/ SeqStop(l) \/ SeqInfo(l) \/ SeqTime(l)
    \/ \E t \in Tasks : Step(t) \/ Late(t) \/ InfoRead(t)
    \/ OutageBegin \/ OutageEnd

SpecQuery == Init /\ [][NextQuery]_vars

\* SpecClock: launch, stop and get_time_remaining called sequentially on a
\* healthy orchestrator while the clock runs.  The janitor, which wakes up
\* once a minute, is asleep.
NextClock ==
    \/ \E l \in Labs : SeqLaunch(l) \/ SeqStop(l) \/ SeqTime(l)
    \/ \E t \in Tasks : Step(t)
    \/ Tick

SpecClock == Init /\ [][NextClock]_vars

\* SpecPatch: _patch_ingress called on an Ingress of any content, one call
\* at a time and nothing else running
SpecPatch == Init /\ [][NextPatch]_vars

\* SpecGate: more coroutines than permits going in and out of the gate
SpecGate == Init /\ [][NextGate]_vars

\* SpecRetry: calls of a wrapped function whose every await ends in any way
SpecRetry == Init /\ [][NextRetry]_vars

\* SpecApi: POST /labs and DELETE /labs/{lab_id} requests of one user,
\* overlapping freely
NextApi ==
    \/ \E i \in 1..NumRequests : NewLabCall(i) \/ \E l \in Labs : TerminateLabCall(i, l)
    \/ \E i \in 1..NumRequests : new_lab(i) \/ terminate_lab(i)

SpecApi == Init /\ [][NextApi]_vars

\* SpecProxy: one terminal session; the client and the remote end act as
\* they please.
ProxyStep ==
    \/ ProxyCall
    \/ BrowserToLab \/ BrowserToLabEnds
    \/ LabToBrowser \/ LabToBrowserEnds

NextProxy ==
    \/ ProxyStep
    \/ ClientSends \/ ClientLeaves
    \/ RemoteSends \/ RemoteEnds

SpecProxy == Init /\ [][NextProxy]_vars

\* SpecBoot: the scaffold-ensure functions of the StatefulSet back-end called
\* freely, overlapping or not, on a healthy orchestrator in which any of the
\* shared resources may be missing (as before init(), or when launches
\* overlap after the StatefulSet has been deleted).
InitBoot ==
    /\ backend = "sts"
    /\ active = <<>>
    /\ created = <<>>
    /\ now = 0
    /\ task = [p \in Procs |-> IF p = Jan THEN [Fresh("janitor") EXCEPT !.pc = "sleep"]
                                ELSE Fresh("none")]
    /\ replicas = 0
    /\ ready = 0
    /\ pods = [l \in Labs |-> "absent"]
    /\ svcs = {}
    /\ ingExists \in BOOLEAN
    /\ rules = {}
    /\ down = FALSE
    /\ outages = 0
    /\ calls = 0
    /\ scaffold \in SUBSET {"sts", "headless"}
    /\ px = NoSession
    /\ ingress = NoPatch
    /\ gate = NoCaller
    /\ retry = NoRetry
    /\ api = NoRequest

NextBoot ==
    \/ \E t \in Tasks, w \in Shared : EnsureCall(t, w)
    \/ \E t \in Tasks : EnsureRead(t) \/ EnsureCreate(t)

SpecBoot == InitBoot /\ [][NextBoot]_vars

\* SpecRace: API calls overlapping freely on a healthy orchestrator
NextRace ==
    \/ \E t \in Tasks, l \in Labs : LaunchCall(t, l) \/ StopCall(t, l)
    \/ \E t \in Tasks : Step(t)

SpecRace == Init /\ [][NextRace]_vars

\* SpecJanitor: labs are launched without a tag (a fresh lab id each time) and
\* left to the janitor, while the clock runs and the orchestrator may be down
\* for a while.  Every coroutine that can run does run, the clock advances,
\* the janitor wakes up, and an outage ends.
FreshLaunch(l) == ~InUse(l) /\ SeqLaunch(l)

NextJanitor ==
    \/ \E l \in Labs : FreshLaunch(l)
    \/ \E p \in Procs : Step(p) \/ \E k \in Kinds : OrphanStep(p, k)
    \/ JanitorTick \/ Tick
    \/ OutageBegin \/ OutageEnd

Run(p) == Step(p) \/ \E k \in Kinds : OrphanStep(p, k)

SpecJanitor ==
    /\ Init /\ [][NextJanitor]_vars
    /\ \A p \in Procs : WF_vars(Run(p))
    /\ WF_vars(Tick) /\ WF_vars(JanitorTick) /\ WF_vars(OutageEnd)

\* SpecClose: labs are launched without a tag and left to the janitor while
\* the clock runs, on a healthy orchestrator, and close() is called at any
\* time.
NextClose ==
    \/ \E l \in Labs : FreshLaunch(l)
    \/ \E p \in Procs : Step(p)
    \/ JanitorTick \/ Tick
    \/ \E t \in Tasks : CloseCall(t) \/ CloseReturn(t)
    \/ JanitorCancelled

SpecClose == Init /\ [][NextClose]_vars

\* SpecSweep: launch (with any tag) and stop called one at a time on a healthy
\* orchestrator while the clock runs and the janitor sweeps.
NextSweep ==
    \/ \E l \in Labs : SeqLaunch(l) \/ SeqStop(l)
    \/ \E p \in Procs : Step(p)
    \/ JanitorTick \/ Tick

SpecSweep == Init /\ [][NextSweep]_vars

\* ------------------------------------------------------------------ claims
Returned(t, o) == task[t].op = o /\ task[t].pc = "done"
Failed(t) == Returned(t, "launch") /\ task[t].ret = "error"
Registry(l) == l \in DOMAIN active \/ l \in CreatedKeys(created)

\* C1: in the StatefulSet back-end no two labs that are in the active
\* registry at the same time have the same replica index.
C1_DistinctIndices ==
    backend = "sts" =>
        \A a, b \in DOMAIN active : a # b => active[a] # active[b]

\* C2: when a launch has failed on an orchestrator that refused none of its
\* requests with 5xx, no Service, ingress rule or compute unit that the launch
\* created is left.
C2_NoLeftover ==
    \A t \in Tasks :
        LET r == task[t] IN
        (Failed(t) /\ ~r.dup /\ ~r.err5xx) =>
            /\ "svc" \in r.made => r.lab \notin svcs
            /\ "ing" \in r.made => r.lab \notin rules
            /\ "unit" \in r.made => IF backend = "pod" THEN pods[r.lab] = "absent"
                                     ELSE replicas <= r.idx

\* C3 (as stated): when a launch has failed, the registry (active and
\* created) has no entry for its lab_id.
C3_NoEntryAfterFailure ==
    \A t \in Tasks : Failed(t) => ~Registry(task[t].lab)

\* C3 (amended): when a launch has failed and its lab_id was at no time during
\* the call registered by another call, the registry has no entry for it.
C3_NoOwnEntryAfterFailure ==
    \A t \in Tasks : (Failed(t) /\ ~task[t].dup) => ~Registry(task[t].lab)

\* a launch has failed after creating resources, its lab_id never registered
C3_Witness ==
    \E t \in Tasks : Failed(t) /\ ~task[t].dup /\ task[t].made # {}

\* C4: a launch whose readiness wait ran into the deadline returns an error
\* (and so registers nothing).
C4_TimeoutFails ==
    \A t \in Tasks :
        (Returned(t, "launch") /\ task[t].timedOut) => task[t].ret = "error"

\* C5: from the moment stop() has found the lab until it has returned True the
\* lab is in the active registry: it is not removed while a deletion is pending
\* or after one has failed.
C5_RegisteredUntilDeleted ==
    \A t \in Tasks :
        LET r == task[t] IN
        (r.op = "stop" /\ r.found /\ ~(r.pc = "done" /\ r.ret = "true"))
            => r.lab \in DOMAIN active

\* C6: every lab that is registered with a TTL ending within the horizon is
\* eventually reclaimed: out of the registry, its Service, ingress rule and pod
\* deleted.
Registered(l) ==
    /\ l \in DOMAIN active /\ l \in CreatedKeys(created)
    /\ CreatedAt(created, l) + POD_TTL_SECS * Res < MaxTime
Reclaimed(l) ==
    /\ l \notin DOMAIN active
    /\ l \notin svcs /\ l \notin rules /\ pods[l] = "absent"
C6_EventuallyReclaimed ==
    \A l \in Labs : Registered(l) ~> Reclaimed(l)

\* C7: stop(lab_id) of a lab that is not in the registry returns False at once,
\* with no orchestrator call pending or made, and changes neither the registry
\* nor the orchestrator.
C7_UnknownStopIsNoop ==
    [][\A t \in Tasks, l \in Labs :
          (StopCall(t, l) /\ l \notin DOMAIN active) =>
              /\ task'[t].pc = "done" /\ task'[t].ret = "false"
              /\ task'[t].dels = {} /\ ~Draining(task'[t])
              /\ active' = active /\ created' = created
              /\ orch' = orch]_vars

\* stop() of an unknown lab has returned while other resources exist
C7_Witness ==
    \E t \in Tasks : /\ Returned(t, "stop") /\ ~task[t].found /\ ~task[t].again
                     /\ svcs # {}

\* C8: a stop(lab_id) that directly follows a stop(lab_id) which returned True
\* returns False without looking for anything to delete.
C8_SecondStopIsNoop ==
    \A t \in Tasks :
        task[t].again => /\ task[t].pc = "done" /\ task[t].ret = "false"
                         /\ ~task[t].found /\ task[t].dels = {}
                         /\ ~Draining(task[t])

\* the second stop() has returned
C8_Witness ==
    \E t \in Tasks : Returned(t, "stop") /\ task[t].again

\* C9: stop() of a registered lab returns True unless the orchestrator refused
\* one of its requests with 5xx: a resource that is already absent (404) does
\* not make it fail.
C9_AbsentIsSuccess ==
    \A t \in Tasks :
        (Returned(t, "stop") /\ task[t].found /\ ~task[t].err5xx)
            => task[t].ret = "true"

\* C10: whatever stop() of a registered lab returns, it has attempted all
\* three cleanup actions: the ingress-rule removal, the Service deletion and
\* the compute-unit deletion / scale-down.
C10_AllAttempted ==
    \A t \in Tasks :
        (Returned(t, "stop") /\ task[t].found /\ ~Draining(task[t]))
            => task[t].dels = {"ing", "svc", "unit"}

\* ------------------------------------------------------------------ C11
\* the labs of the registry older than the TTL, strictly
TickExpired ==
    {l \in CreatedKeys(created) : now - CreatedAt(created, l) > POD_TTL_SECS * Res}

SameEntry(l) ==
    /\ (l \in DOMAIN active) = (l \in DOMAIN active')
    /\ l \in DOMAIN active => active'[l] = active[l]
    /\ (l \in CreatedKeys(created)) = (l \in CreatedKeys(created'))
    /\ l \in CreatedKeys(created) => CreatedAt(created', l) = CreatedAt(created, l)

SameResources(l) ==
    /\ (l \in svcs) = (l \in svcs')
    /\ pods'[l] = pods[l]
    /\ backend = "sts" /\ l \in DOMAIN active /\ active[l] < replicas
           => active[l] < replicas'

JanitorActs == task'[Jan] # task[Jan]
JanitorWakes == task[Jan].pc = "sleep" /\ JanitorActs

\* C11: one tick of the janitor calls stop() on exactly the registered labs
\* whose elapsed time now - created_at is strictly greater than the TTL, and
\* what the tick does leaves every other lab untouched in the registry and in
\* the orchestrator (its Service and its compute unit; the Ingress, which is
\* rewritten as a whole, is the subject of C20).
C11_TickStopsExpiredOnly ==
    [][/\ JanitorWakes => task'[Jan].expired = TickExpired
       /\ task'[Jan].pc = "sleep" => task'[Jan].called = task'[Jan].expired
       /\ JanitorActs =>
              \A l \in Labs \ task'[Jan].expired : SameEntry(l) /\ SameResources(l)
      ]_vars


\* ------------------------------------------------------------------ C12
RangeOf(q) == {q[i] : i \in 1..Len(q)}

\* C12: an error while the janitor stops one expired lab does not prevent
\* stop() from being called on every other lab found expired in that tick:
\* after a failure the labs already tried and the labs still to try are
\* together the expired ones, and the tick ends with all of them tried.
C12_FailureSkipsNoLab ==
    task[Jan].failed # {} =>
        /\ task[Jan].called \cup RangeOf(task[Jan].queue) = task[Jan].expired
        /\ task[Jan].pc = "sleep" => task[Jan].called = task[Jan].expired

\* a tick found two labs expired, and stop() failed on both
C12_Witness ==
    /\ task[Jan].pc = "sleep"
    /\ Cardinality(task[Jan].expired) = 2
    /\ task[Jan].failed = task[Jan].expired
    /\ task[Jan].called = task[Jan].expired


\* ------------------------------------------------------------------ C13
\* C13: the janitor loop never ends because of an exception: whatever has
\* failed during a tick, the task is inside a stop() of that tick or asleep,
\* and asleep it runs the next tick as soon as a lab has expired.
C13_JanitorNeverEnds ==
    /\ task[Jan].op = "janitor"
    /\ task[Jan].pc \notin {"idle", "done"}
    /\ task[Jan].pc = "sleep" /\ TickExpired # {} => ENABLED JanitorTick

\* the janitor is asleep after a tick in which a stop() failed, and a lab
\* has expired since
C13_Witness ==
    /\ task[Jan].pc = "sleep"
    /\ task[Jan].failed # {}
    /\ TickExpired # {}


\* ------------------------------------------------------------------ C14
\* C14: created_at of a lab is written once, when launch registers the lab,
\* and does not change while the lab stays registered, a launch called with
\* the tag of a registered lab included.
C14_CreatedWrittenOnce ==
    [][\A l \in Labs :
           l \in CreatedKeys(created) /\ l \in CreatedKeys(created')
               => CreatedAt(created', l) = CreatedAt(created, l)]_vars


\* ------------------------------------------------------------------ C15
\* C15: for a lab that stays registered with the same created_at, the time
\* remaining never increases as time advances, is never negative, and is
\* exactly 0 (minutes 0, seconds 0) at every time at or after
\* created_at + TTL.
C15_TimeLeftRunsDown ==
    [][\A l \in Labs :
           LET a == time_left(created, l, now)
               b == time_left(created', l, now')
           IN a # <<>> /\ b # <<>>
              /\ CreatedAt(created', l) = CreatedAt(created, l)
              => /\ b[1].total_seconds <= a[1].total_seconds
                 /\ b[1].total_seconds >= 0
                 /\ b[1].minutes >= 0 /\ b[1].seconds >= 0
                 /\ now' >= CreatedAt(created', l) + POD_TTL_SECS * Res
                        => b[1] = [minutes |-> 0, seconds |-> 0, total_seconds |-> 0]
      ]_vars

\* get_time_remaining has answered 0 for a lab whose TTL has passed
C15_Witness ==
    \E t \in Tasks :
        /\ task[t].op = "time" /\ task[t].pc = "done"
        /\ task[t].left # <<>>
        /\ task[t].left[1].total_seconds = 0
        /\ task[t].lab \in CreatedKeys(created)
        /\ now > CreatedAt(created, task[t].lab) + POD_TTL_SECS * Res


\* ------------------------------------------------------------------ C16
\* C16: get_time_remaining(lab_id) returns None if and only if lab_id is not
\* an active lab of the registry; for an active lab it returns
\* total_seconds = max(0, TTL - (now - created_at)), the elapsed time counted
\* in whole seconds, with minutes * 60 + seconds = total_seconds and
\* 0 <= seconds < 60.
C16_NullIffNotActive ==
    \A t \in Tasks :
        task[t].op = "time" /\ task[t].pc = "done" =>
            LET l == task[t].lab
                v == task[t].left
            IN /\ (v = <<>>) = (l \notin DOMAIN active)
               /\ v # <<>> =>
                      LET gone == (now - CreatedAt(created, l)) \div Res
                      IN /\ v[1].total_seconds =
                               IF POD_TTL_SECS > gone THEN POD_TTL_SECS - gone ELSE 0
                         /\ v[1].minutes * 60 + v[1].seconds = v[1].total_seconds
                         /\ v[1].seconds >= 0 /\ v[1].seconds < 60


\* ------------------------------------------------------------------ C17
\* a step of get_lab_info in task t
InfoActs(t) == task'[t].op = "info" /\ task'[t] # task[t]

\* C17: get_lab_info(lab_id) is a pure read: it changes neither the registry
\* nor any orchestrator object, it returns None if and only if lab_id is not
\* in the registry, and when the pod read fails with an API error it does
\* not raise but returns a snapshot whose status is error-<code>.
C17_InfoIsPureRead ==
    [][\A t \in Tasks :
           InfoActs(t) =>
               /\ UNCHANGED <<active, created, orch>>
               /\ task'[t].pc = "done" =>
                      /\ task'[t].ret \in {"null", "info"}
                      /\ (task'[t].info = <<>>) = (task'[t].lab \notin DOMAIN active)
                      /\ task'[t].info # <<>> =>
                             /\ task'[t].info[1].lab_id = task'[t].lab
                             /\ down => task'[t].info[1].status = "error-500"
                             /\ ~down => task'[t].info[1].status
                                             \in {"error-404", "pending",
                                                  "starting", "running"}
      ]_vars

\* get_lab_info has answered for a registered lab while the API was down
C17_Witness ==
    \E t \in Tasks :
        /\ task[t].op = "info" /\ task[t].pc = "done"
        /\ task[t].lab \in DOMAIN active
        /\ task[t].info # <<>>
        /\ task[t].info[1].status = "error-500"


\* ------------------------------------------------------------------ C18
\* C18: end to end, while the orchestrator API answers: after launch() has
\* returned the id of a new lab, an immediate get_lab_info(lab_id) returns an
\* object whose status is "starting" or "running" and whose hostname is
\* <lab_id>.<domain>; stop(lab_id) then returns True; and a get_lab_info
\* after that returns None.
C18_LaunchInfoStopInfo ==
    \A t \in Tasks :
        outages = 0 /\ task[t].pc = "done" =>
            /\ task[t].op = "info" /\ task[t].after = "launch" =>
                   /\ task[t].info # <<>>
                   /\ task[t].info[1].status \in {"starting", "running"}
                   /\ task[t].info[1].hostname = lab_host(task[t].lab)
            /\ task[t].op = "stop" /\ task[t].after = "info" =>
                   task[t].ret = "true"
            /\ task[t].op = "info" /\ task[t].after = "stop" =>
                   task[t].info = <<>>


\* ------------------------------------------------------------------ C19
\* C19: in the StatefulSet back-end a launch is given the lowest index that
\* no lab of the active registry holds: every lower index is held by
\* another registered lab when the launch of a new lab returns.
C19_LowestFreeIndex ==
    \A t \in Tasks :
        /\ backend = "sts" /\ Returned(t, "launch")
        /\ task[t].ret = "ok" /\ ~task[t].dup
        /\ task[t].lab \in DOMAIN active /\ active[task[t].lab] = task[t].idx
        => \A j \in 0..(task[t].idx - 1) :
               \E l \in DOMAIN active \ {task[t].lab} : active[l] = j


\* ------------------------------------------------------------------ C20
\* C20: _patch_ingress is a read-modify-write with no locking: a write puts
\* into the Ingress the rules its own read has seen, changed for its own lab
\* only, whatever has been written in between.  So a mutation that overlaps
\* it is lost: a launch can return successfully while the Ingress holds no
\* host rule for its lab.
C20_WriteInstallsItsRead ==
    [][rules' # rules =>
           \E p \in Procs :
               /\ task'[p] # task[p]
               /\ \/ /\ task[p].pc = "ing_write"
                     /\ rules' \ {task[p].lab} = task[p].snap \ {task[p].lab}
                  \/ /\ task[p].sub["ing"].pc = "ing_write"
                     /\ rules' \ {task[p].sub["ing"].lab}
                            = task[p].sub["ing"].snap \ {task[p].sub["ing"].lab}
      ]_vars

\* the launch of a new lab has returned its id, the lab is registered and
\* nobody has stopped it, and the Ingress has no host rule for it
C20_Witness ==
    \E t \in Tasks :
        /\ Returned(t, "launch") /\ task[t].ret = "ok" /\ ~task[t].dup
        /\ "ing" \in task[t].made
        /\ task[t].lab \in DOMAIN active
        /\ task[t].lab \notin rules
        /\ ingExists


\* ------------------------------------------------------------------ C21
\* C21: calling a scaffold-ensure function twice, one call after the other
\* or overlapping, while the orchestrator answers, never surfaces an error
\* to the caller and leaves the shared resource in existence (the
\* orchestrator holds one object per name).
C21_EnsureTwice ==
    \A t \in Tasks :
        /\ task[t].fn = "ensure" => task[t].n < MAX_RETRIES - 1
        /\ Returned(t, "ensure") => task[t].ret = "ok" /\ Exists(task[t].what)

\* two calls for the same resource have returned, one of them after its
\* create was answered 409
C21_Witness ==
    /\ \A t \in Tasks : Returned(t, "ensure") /\ task[t].what = task[1].what
    /\ \E t \in Tasks : task[t].conflict

\* ------------------------------------------------------------------ C22
SessionOver == px.phase \in {"returned", "raised"} /\ px.conn = "closed"

\* neither direction has anything to do until its own peer acts
WaitsForPeer ==
    /\ px.phase = "open"
    /\ px.b2l = "run" => px.inq = <<>> /\ px.client = "open"
    /\ px.l2b = "run" => px.outq = <<>> /\ px.conn = "open" /\ px.remote = "open"

\* C22: either direction closing ends the session: once the client has
\* disconnected or the remote-exec stream has ended, proxy() has returned
\* (or raised) with the remote-exec connection closed, or is on its way
\* there by steps of its own; it is never left waiting for the other peer
\* to end on its own.
C22_EitherEndEndsSession ==
    px.client = "gone" \/ px.remote # "open"
        => px.phase = "idle" \/ SessionOver \/ ~WaitsForPeer

\* ------------------------------------------------------------------ C30
\* the frame is a 4-byte little-endian length, a JSON object of that many
\* bytes and a single 0x00
WellFramed(f) ==
    /\ Len(f) >= 7
    /\ f[1] + 256 * f[2] + 65536 * f[3] + 16777216 * f[4] = Len(f) - 5
    /\ f[5] = 123 /\ f[Len(f) - 1] = 125
    /\ f[Len(f)] = 0
    /\ \A i \in 5..(Len(f) - 1) : f[i] # 0

\* C30: the frame helpers round-trip, _unwrap(_wrap(t)) = t; the length
\* prefix of a frame is the byte length of its JSON body and the frame ends
\* with a single 0x00; each text read from the client has produced exactly
\* one frame, and the frames were sent in the order the texts were read.
C30_FramesRoundTrip ==
    /\ Len(px.sent) = Len(px.got) - (IF px.b2l = "raised" THEN 1 ELSE 0)
    /\ \A i \in 1..Len(px.sent) :
          /\ _unwrap(px.sent[i]) = px.got[i]
          /\ WellFramed(px.sent[i])

C30_Witness ==
    /\ Len(px.sent) = 2
    /\ px.got[1] # px.got[2]
    /\ Len(encode(px.got[1])) > 1
    /\ px.got[2] # <<>>

\* ------------------------------------------------------------------ C23
Closed == \E t \in Tasks : Returned(t, "close")

\* C23: close() cancels the janitor task and waits for it to finish before
\* it returns: once close() has returned the janitor task is done, stays
\* done, and awaits no further stop().
C23_CloseEndsJanitor ==
    [][Closed' => /\ task'[Jan].pc = "done"
                  /\ Closed => task'[Jan].called = task[Jan].called]_vars

\* close() has returned after it interrupted the janitor in a stop(), with
\* another expired lab still waiting for its turn
C23_Witness ==
    /\ Closed
    /\ task[Jan].ret = "cancelled"
    /\ task[Jan].lab # 0
    /\ task[Jan].queue # <<>>

\* ------------------------------------------------------------------ C24
RulesFor(rs, l) == SelectSeq(rs, LAMBDA r : r.host = lab_host(l))
RulesNotFor(rs, l) == SelectSeq(rs, LAMBDA r : r.host # lab_host(l))

\* C24: _patch_ingress(lab_id, add) run in isolation: with add the Ingress
\* then has exactly one rule for the host of lab_id, which routes / (Prefix)
\* to <lab_id>-svc port 80, whatever rules for that host it had before;
\* without add it has no rule for that host; the rules of the other hosts
\* are the same as before, in the same order; and a second application of
\* the same patch leaves the Ingress as the first one left it.
C24_PatchInIsolation ==
    ingress.pc = "done" =>
        LET l == ingress.lab IN
        /\ RulesFor(ingress.rules, l) =
              IF ingress.add
              THEN <<[host |-> lab_host(l), path |-> "/", path_type |-> "Prefix",
                      service |-> svc_name(l), port |-> 80]>>
              ELSE <<>>
        /\ RulesNotFor(ingress.rules, l) = RulesNotFor(ingress.before, l)
        /\ ingress.repeat => ingress.rules = ingress.before

\* an add has replaced two stale rules of the host and kept another host's
C24_Witness ==
    /\ ingress.pc = "done" /\ ingress.add
    /\ Len(RulesFor(ingress.before, ingress.lab)) = 2
    /\ \A i \in 1..2 : RulesFor(ingress.before, ingress.lab)[i].port # 80
    /\ RulesNotFor(ingress.before, ingress.lab) # <<>>

\* ------------------------------------------------------------------ C26
Inside == {c \in Callers : gate.at[c] \in {"in", "op"}}

\* C26: at every moment at most CONCURRENCY coroutines are inside the _k8s()
\* gate, a request to the orchestrator is in flight only inside it, every
\* permit taken is either held by a coroutine inside or has been given
\* back, and the gate never deadlocks: whenever a coroutine waits, a permit
\* is free or some coroutine inside can leave.
C26_GateBounds ==
    /\ Cardinality(Inside) <= CONCURRENCY
    /\ \A c \in Callers : gate.at[c] = "op" => c \in Inside
    /\ gate.sem = CONCURRENCY - Cardinality(Inside)
    /\ (\E c \in Callers : gate.at[c] = "wait") => gate.sem > 0 \/ Inside # {}

C26_Witness ==
    /\ Cardinality(Inside) = CONCURRENCY
    /\ \E c \in Callers : gate.at[c] = "wait"
    /\ \E c \in Callers : gate.at[c] = "op"

\* ------------------------------------------------------------------ C27
\* C27: a function wrapped by retry_async is awaited at most 3 times per
\* call; the first success is returned at once; a retryable failure is
\* followed by a wait of 1 s, then of 2 s, and another attempt; the third
\* retryable failure in a row is raised to the caller; an exception outside
\* the configured types is raised at once, without wait or retry.
C27_RetryBounds ==
    LET seen == retry.seen
        k == Len(seen)
    IN
    /\ k <= 3
    /\ \A i \in 1..(k - 1) : Caught(retry.exceptions, seen[i])
    /\ retry.pc = "run" => k < 3
    /\ retry.slept = SubSeq(<<1, 2>>, 1, IF retry.pc = "run" THEN k ELSE k - 1)
    /\ retry.pc = "returned" => seen[k] = "ok" /\ retry.out = "ok"
    /\ retry.pc = "raised" =>
          /\ seen[k] # "ok" /\ retry.out = seen[k]
          /\ Caught(retry.exceptions, seen[k]) => k = 3

C27_Witness ==
    /\ retry.pc = "raised"
    /\ retry.slept = <<1, 2>>
    /\ retry.seen[1] # retry.seen[3]

\* ------------------------------------------------------------------ C25
\* the steps of launch(): 1 the StatefulSet is there, 2 an index is chosen,
\* 3 the compute slot (replica or pod), 4 the Service, 5 the ingress rule
Stage(pc) ==
    CASE pc = "ensure_read" -> 1
      [] pc = "find_idx" -> 2
      [] pc \in {"scale_read", "scale_patch", "scale_wait",
                 "pod_create", "pod_wait"} -> 3
      [] pc = "svc_create" -> 4
      [] pc \in {"ing_read", "ing_write"} -> 5
      [] OTHER -> 0

\* C25: within launch() the steps are strictly sequential: a launch goes
\* from a step to the same step (a retry) or to the next one (the scale-up
\* is skipped when the index chosen needs none), its Service is created only
\* in the Service step, its ingress rule is added only in the ingress step,
\* and the lab enters the registry only as the ingress write succeeds,
\* which is also the only way the launch returns lab_id.
C25_StepsInOrder ==
    [][\A t \in Tasks :
         LET r == task[t]
             r2 == task'[t]
         IN (r.fn = "launch" /\ r2 # r) =>
              /\ (r2.fn = "launch" /\ r2.pc # "done") =>
                    \/ Stage(r2.pc) \in Stage(r.pc)..(Stage(r.pc) + 1)
                    \/ r.pc = "find_idx" /\ r2.pc = "svc_create"
              /\ r.lab \in svcs' \ svcs => r.pc = "svc_create"
              /\ r.lab \in rules' \ rules => r.pc = "ing_write"
              /\ (Registry(r.lab)' /\ ~Registry(r.lab)) =>
                    /\ r.pc = "ing_write" /\ r.lab \in rules'
                    /\ r2.pc = "done" /\ r2.ret = "ok"
              /\ (r2.pc = "done" /\ r2.ret = "ok") =>
                    /\ r.pc = "ing_write"
                    /\ r.lab \in DOMAIN active' /\ r.lab \in CreatedKeys(created')]_vars

\* a launch has returned lab_id after it created slot, Service and rule and
\* had to retry on the way
C25_Witness ==
    \E t \in Tasks :
        /\ Returned(t, "launch") /\ task[t].ret = "ok"
        /\ task[t].made = {"unit", "svc", "ing"}
        /\ task[t].err5xx

\* ------------------------------------------------------------------ C28
\* C28: every 409 that answers a create (here: of the shared StatefulSet,
\* headless Service or Ingress) is treated as success on that same attempt:
\* no call has met a 409 that was raised out of the function and counted
\* as a failure by retry_async.
C28_ConflictIsSuccess ==
    \A t \in Tasks : task[t].fn = "ensure" => ~task[t].conflict /\ task[t].n = 0

\* ------------------------------------------------------------------ C29
\* C29: _find_available_index() returns the smallest non-negative integer
\* that is not the index of a pod of the pool living in the orchestrator
\* when it is called (the controller keeps the pods 0..replicas-1).
C29_LowestOfLivePods ==
    [][\A t \in Tasks :
         (task[t].pc = "find_idx" /\ task'[t] # task[t]) =>
             LET live == 0..(replicas - 1)
                 idx == task'[t].idx
             IN idx \notin live /\ \A j \in 0..(idx - 1) : j \in live]_vars

\* C31: in the StatefulSet back-end, when launch and stop are called one at a
\* time on an orchestrator that answers every request, a launch that returns
\* lab_id has taken an index that no registered lab holds, neither before nor
\* after it registers its own, and the pool's desired replica count is then
\* at least that index plus one.
C31_LaunchGetsFreeIndex ==
    [][backend = "sts" =>
         \A t \in Tasks :
             (task[t].op = "launch" /\ task[t].pc # "done"
                 /\ task'[t].pc = "done" /\ task'[t].ret = "ok") =>
                 LET idx == task'[t].idx IN
                 /\ \A l \in DOMAIN active : active[l] # idx
                 /\ \A l \in DOMAIN active' \ {task[t].lab} : active'[l] # idx
                 /\ active'[task[t].lab] = idx
                 /\ replicas' >= idx + 1]_vars

\* a launch has returned a lab at index 1 or above while another lab is
\* registered, and a stop has been served before
C31_Witness ==
    /\ backend = "sts"
    /\ Returned(1, "launch") /\ task[1].ret = "ok" /\ task[1].idx >= 1
    /\ task[1].lab \in DOMAIN active /\ active[task[1].lab] = task[1].idx
    /\ Cardinality(DOMAIN active) = 2
    /\ replicas = 3

\* C32: in the StatefulSet back-end a launch whose listing of the pool's pods
\* met an orchestrator error never registers its lab at an index that another
\* registered lab holds.
C32_ListErrorNoSharedIndex ==
    [][backend = "sts" =>
         \A t \in Tasks :
             (task[t].op = "launch" /\ task[t].pc # "done"
                 /\ task'[t].pc = "done" /\ task'[t].ret = "ok"
                 /\ task'[t].listErr) =>
                 \A l \in DOMAIN active' \ {task[t].lab} :
                     active'[l] # task'[t].idx]_vars

\* C33: in both back-ends, whenever no launch or stop is in progress (the
\* janitor is not inside a stop() either), the active map and the created map
\* hold the same lab ids, also after a stop() whose cleanup has failed.
C33_SameLabIds ==
    (Quiet /\ task[Jan].pc = "sleep") =>
        DOMAIN active = CreatedKeys(created)

\* C34: in the StatefulSet back-end, however launch and stop calls
\* interleave, every lab in the active registry has an index strictly below
\* the desired replica count of the StatefulSet.
C34_IndexBelowReplicas ==
    backend = "sts" => \A l \in DOMAIN active : active[l] < replicas

\* task t, serving a stop() of the StatefulSet back-end, takes a step
StopActs(t) ==
    /\ backend = "sts"
    /\ task[t].op = "stop" /\ task[t].fn = "stop"
    /\ task[t].pc \notin {"idle", "done"}
    /\ task'[t] # task[t]

\* ... and the step is the return of True
StopSucceeds(t) ==
    StopActs(t) /\ task'[t].pc = "done" /\ task'[t].ret = "true"

\* C35: in the StatefulSet back-end a stop() that returns True for the lab
\* holding the highest active index leaves the pool at (highest remaining
\* active index + 1) replicas, a stop() of a lab below the highest index
\* changes the replica count at none of its steps, and so a successful stop()
\* of the last registered lab leaves the pool at 0 replicas.
C35_StopScalesToHighest ==
    [][\A t \in Tasks :
         LET held == task[t].idx
             highest_idx == MaxIndex(active)
         IN /\ (StopSucceeds(t) /\ held >= highest_idx) =>
                    replicas' = highest_idx + 1
            /\ (StopActs(t) /\ held < highest_idx) => replicas' = replicas
            /\ (StopSucceeds(t) /\ DOMAIN active' = {}) => replicas' = 0]_vars

\* task u is inside a stop(l) that found l in the registry
Stopping(u, l) ==
    /\ task[u].op = "stop" /\ task[u].lab = l
    /\ task[u].pc \notin {"idle", "done"}

\* stop(l) is called on task t
StopCalled(t, l) ==
    /\ task[t].pc \in {"idle", "done"}
    /\ task'[t] # task[t]
    /\ task'[t].op = "stop" /\ task'[t].lab = l

\* C36: in both back-ends, when stop(l) is called while another stop(l) that
\* found l registered is still in progress (and no launch has registered l
\* again meanwhile), the second call returns False at once: it finds no entry,
\* attempts no deletion and leaves the orchestrator as it is, so that only the
\* first call cleans up and only the first can return True.
C36_OneStopCleansUp ==
    [][\A t, u \in Tasks, l \in Labs :
         (/\ t # u /\ Stopping(u, l) /\ StopCalled(t, l)
          /\ ~task[u].relaunched)
         => /\ task'[t].pc = "done" /\ task'[t].ret = "false"
            /\ ~task'[t].found /\ task'[t].dels = {}
            /\ ~Draining(task'[t])
            /\ orch' = orch
            /\ task'[u] = task[u]]_vars

\* a stop(l) has returned False while the stop(l) that it overlapped is still
\* cleaning up
C36_Witness ==
    \E t, u \in Tasks :
        /\ t # u /\ Stopping(u, task[t].lab) /\ task[u].found
        /\ task[u].dels # {}
        /\ Returned(t, "stop") /\ task[t].ret = "false" /\ ~task[t].found

\* task t takes a step of a launch that is failing: a step of the stop() that
\* its except clause awaits, or the step at which the launch raises
LaunchFails(t) ==
    /\ task'[t] # task[t]
    /\ task'[t].op = "launch"
    /\ task'[t].fn = "stop" \/ (task'[t].pc = "done" /\ task'[t].ret = "error")

\* C37: in both back-ends no step of a failing launch(tag) removes or changes
\* the registry entry of a lab that is registered, nor its Service, its ingress
\* rule or its compute unit, also when tag is the lab_id of that lab.
C37_FailedLaunchHarmless ==
    [][\A t \in Tasks :
         LaunchFails(t) =>
             \A l \in DOMAIN active :
                 SameEntry(l) /\ SameResources(l) /\ (l \in rules) = (l \in rules')]_vars

\* the labs on which the janitor calls stop() at this step
JanitorCalls ==
    IF JanitorActs
    THEN task'[Jan].called \ (IF task[Jan].pc = "sleep" THEN {} ELSE task[Jan].called)
    ELSE {}

\* C38: however ticks of the janitor interleave with launch and stop calls, a
\* lab that is registered at the moment the janitor calls stop() on it has 0
\* seconds of its time remaining at that moment.
C38_JanitorStopsExpiredOnly ==
    [][\A l \in JanitorCalls :
         l \in DOMAIN active =>
             time_left(created, l, now) =
                 <<[minutes |-> 0, seconds |-> 0, total_seconds |-> 0]>>]_vars

\* C39: in the API layer, however POST /labs requests of one user interleave,
\* at most one of them launches a lab as long as no DELETE request of the
\* user has arrived since.
C39_OneLaunchPerUser == api.launched <= 1

====
